---- MODULE Spec2Model ----
(***************************************************************************)
(* Product-Manual-Bot: the parent/child chunk store (VectorService), the   *)
(* ingestion pipeline (IngestionService), retrieval + generation           *)
(* (RAGService) and the SSE stream endpoint (stream_chat).                 *)
(*                                                                         *)
(* Texts are sequences of one-character strings.  Embeddings are unit      *)
(* vectors in the plane at multiples of 45 degrees, named by their angle   *)
(* index; cosine distance is kept in hundredths.                           *)
(***************************************************************************)
EXTENDS Integers, Sequences, FiniteSets, TLC

\* ---------------------------------------------------------------- bounds

\* parent ids uuid4 can hand out are 1 .. NumIds
NumIds == 2
\* process_document calls in one behaviour
MaxCalls == 1
\* embeddings are the angle indexes 0 .. MaxAngle (45 degree steps)
MaxAngle == 1
\* explicit top_k arguments tried by retrieve_parent_chunks are 0 .. MaxTopK
MaxTopK == 1
\* fragments the generation capability produces in one stream
MaxFragments == 3
\* concurrent callers of VectorService are 1 .. NumWorkers, one call each
NumWorkers == 2
\* texts handed to the splitters have 0 .. MaxLen characters
MaxLen == 3
\* explicit chunk_size arguments of split_text_recursive are 1 .. MaxSize
MaxSize == 3
\* the upload endpoint answers 0 .. MaxUploads requests
MaxUploads == 2
\* a Streamlit session asks 0 .. MaxTurns questions
MaxTurns == 2

\* ---------------------------------------------------------------- settings

\* Settings, instantiated small: the code reads them from the environment
\* (defaults 2000/200 and 300/50); the model keeps child < parent.
parent_chunk_size == 4
parent_chunk_overlap == 1
child_chunk_size == 2
child_chunk_overlap == 1
top_k_retrieval == 5
\* max_size of the connection pool (default 10, at least 1)
neon_db_pool_size == 1

None == "None"

\* ---------------------------------------------------------------- text

Whitespace == {" ", "\n"}

RECURSIVE Concat(_)
\* "".join(parts) for a sequence of texts
Concat(parts) ==
    IF parts = <<>> THEN <<>> ELSE Head(parts) \o Concat(Tail(parts))

RECURSIVE LStrip(_)
LStrip(s) ==
    IF s # <<>> /\ Head(s) \in Whitespace THEN LStrip(Tail(s)) ELSE s

RECURSIVE RStrip(_)
RStrip(s) ==
    IF s # <<>> /\ s[Len(s)] \in Whitespace
    THEN RStrip(SubSeq(s, 1, Len(s) - 1)) ELSE s

\* str.strip()
Strip(s) == RStrip(LStrip(s))

\* text[i:].startswith(sep), i 1-based
StartsWithAt(text, i, sep) ==
    /\ i + Len(sep) - 1 <= Len(text)
    /\ SubSeq(text, i, i + Len(sep) - 1) = sep

\* re.search(re.escape(sep), text) for a non-empty sep
Contains(text, sep) ==
    \E i \in 1..Len(text) : StartsWithAt(text, i, sep)

\* buffer.endswith(new_text)
EndsWith(buffer, new_text) ==
    /\ Len(new_text) <= Len(buffer)
    /\ SubSeq(buffer, Len(buffer) - Len(new_text) + 1, Len(buffer)) = new_text

\* ---------------------------------------------------------------- splitter
\* RecursiveCharacterTextSplitter as IngestionService configures it:
\* separators ["\n\n", "\n", ". ", " ", ""], length_function len, and the
\* library defaults keep_separator (at the start of the next split) and
\* strip_whitespace.

\* a separator list that does not end with "": no cut between characters
separators_without_cut == << <<"\n", "\n">>, <<"\n">>, <<".", " ">>, <<" ">> >>

separators == << <<"\n", "\n">>, <<"\n">>, <<".", " ">>, <<" ">>, <<>> >>

\* index of the first match of sep in text, 0 when there is none
FirstMatch(text, sep) ==
    IF Contains(text, sep)
    THEN CHOOSE i \in 1..Len(text) :
            /\ StartsWithAt(text, i, sep)
            /\ \A j \in 1..(i - 1) : ~StartsWithAt(text, j, sep)
    ELSE 0

RECURSIVE ReSplit(_, _)
\* re.split(sep, text) without the captured separators: the pieces between
\* the non-overlapping left-to-right matches of a non-empty sep
ReSplit(text, sep) ==
    LET i == FirstMatch(text, sep) IN
    IF i = 0 THEN <<text>>
    ELSE <<SubSeq(text, 1, i - 1)>>
            \o ReSplit(SubSeq(text, i + Len(sep), Len(text)), sep)

\* [s for s in xs if s != ""]
NonEmpty(xs) == SelectSeq(xs, LAMBDA s : s # <<>>)

\* _split_text_with_regex(text, separator, keep_separator=True)
SplitTextWithRegex(text, separator) ==
    IF separator # <<>>
    THEN LET pieces == ReSplit(text, separator) IN
         NonEmpty([i \in 1..Len(pieces) |->
                     IF i = 1 THEN pieces[1] ELSE separator \o pieces[i]])
    ELSE [i \in 1..Len(text) |-> <<text[i]>>]

\* _join_docs(docs, ""): the joined, stripped text; <<>> stands for None
JoinDocs(docs) == Strip(Concat(docs))

RECURSIVE SumLen(_)
SumLen(docs) == IF docs = <<>> THEN 0 ELSE Len(Head(docs)) + SumLen(Tail(docs))

RECURSIVE PopOverlap(_, _, _, _)
\* the while loop of _merge_splits: drop leading splits of current_doc until
\* the kept tail is within the overlap and the next split fits
PopOverlap(current_doc, len, chunk_size, chunk_overlap) ==
    LET total == SumLen(current_doc) IN
    IF total > chunk_overlap \/ (total + len > chunk_size /\ total > 0)
    THEN PopOverlap(Tail(current_doc), len, chunk_size, chunk_overlap)
    ELSE current_doc

RECURSIVE MergeLoop(_, _, _, _, _)
MergeLoop(splits, docs, current_doc, chunk_size, chunk_overlap) ==
    IF splits = <<>>
    THEN LET doc == JoinDocs(current_doc) IN
         IF doc # <<>> THEN Append(docs, doc) ELSE docs
    ELSE LET d     == Head(splits)
             total == SumLen(current_doc)
             over  == total + Len(d) > chunk_size /\ current_doc # <<>>
             doc   == JoinDocs(current_doc)
             docs1 == IF over /\ doc # <<>> THEN Append(docs, doc) ELSE docs
             cur1  == IF over
                      THEN PopOverlap(current_doc, Len(d), chunk_size, chunk_overlap)
                      ELSE current_doc
         IN  MergeLoop(Tail(splits), docs1, Append(cur1, d), chunk_size, chunk_overlap)

\* _merge_splits(splits, "")
MergeSplits(splits, chunk_size, chunk_overlap) ==
    MergeLoop(splits, <<>>, <<>>, chunk_size, chunk_overlap)

RECURSIVE SplitText(_, _, _, _)
RECURSIVE SplitLoop(_, _, _, _, _, _)

\* the for loop of _split_text over the splits of one separator
SplitLoop(splits, final_chunks, good_splits, new_separators, chunk_size, chunk_overlap) ==
    IF splits = <<>>
    THEN IF good_splits # <<>>
         THEN final_chunks \o MergeSplits(good_splits, chunk_size, chunk_overlap)
         ELSE final_chunks
    ELSE LET s == Head(splits) IN
         IF Len(s) < chunk_size
         THEN SplitLoop(Tail(splits), final_chunks, Append(good_splits, s),
                        new_separators, chunk_size, chunk_overlap)
         ELSE LET flushed == IF good_splits # <<>>
                             THEN final_chunks
                                    \o MergeSplits(good_splits, chunk_size, chunk_overlap)
                             ELSE final_chunks
                  deeper  == IF new_separators = <<>>
                             THEN <<s>>
                             ELSE SplitText(s, new_separators, chunk_size, chunk_overlap)
              IN  SplitLoop(Tail(splits), flushed \o deeper, <<>>,
                            new_separators, chunk_size, chunk_overlap)

\* RecursiveCharacterTextSplitter._split_text(text, seps)
SplitText(text, seps, chunk_size, chunk_overlap) ==
    LET hits == {i \in 1..Len(seps) : seps[i] = <<>> \/ Contains(text, seps[i])}
        idx  == IF hits = {} THEN Len(seps)
                ELSE CHOOSE i \in hits : \A j \in hits : i <= j
        separator      == seps[idx]
        new_separators == IF hits = {} \/ separator = <<>> THEN <<>>
                          ELSE SubSeq(seps, idx + 1, Len(seps))
    IN  SplitLoop(SplitTextWithRegex(text, separator), <<>>, <<>>,
                  new_separators, chunk_size, chunk_overlap)

\* self.parent_splitter.split_text(text)
parent_splitter(text) ==
    SplitText(text, separators, parent_chunk_size, parent_chunk_overlap)

\* self.child_splitter.split_text(text)
child_splitter(text) ==
    SplitText(text, separators, child_chunk_size, child_chunk_overlap)

\* ---------------------------------------------------------------- inputs

Ids == 1..NumIds
Angles == 0..MaxAngle

\* an uploaded file: pdfplumber either fails on it or yields, per page, the
\* text extract_text() returns (<<>> for a page without text)
GoodFile(pages) == [malformed |-> FALSE, pages |-> pages]
BadFile(pages) == [malformed |-> TRUE, pages |-> pages]

Uploads ==
    { [filename |-> "a.pdf", file |-> GoodFile(<< <<"a", "a", "a", " ", "a", "a">> >>)],
      [filename |-> "b.pdf", file |-> GoodFile(<< <<"a">>, <<>>, <<"a">> >>)],
      [filename |-> "c.pdf", file |-> GoodFile(<< <<>> >>)],
      [filename |-> "bad.pdf", file |-> BadFile(<< <<"a", "a">> >>)] }

\* errors, by what str(e) starts with
ExtractionError == "ValueError: Failed to extract text from PDF"
PoolIsNone == "AttributeError: 'NoneType' object has no attribute 'acquire'"
EmbeddingsNotInitialized == "RuntimeError: Embeddings not initialized"
StoreError == "PostgresError: connection lost"
ForeignKeyViolation == "ForeignKeyViolationError: child_chunks_parent_id_fkey"
CapabilityError == "CapabilityError: embedding backend failed"

\* ---------------------------------------------------------------- state

VARIABLES
    pool,            \* VectorService.pool: None or "pool"
    embeddings,      \* VectorService.embeddings: None or "embeddings"
    parent_chunks,   \* table parent_chunks: id -> row
    child_chunks,    \* table child_chunks: the committed rows, in insert order
    tx,              \* the open transaction of store_child_chunks
    usedIds,         \* the ids uuid4 has handed out
    task,            \* the frame of the running process_document call
    calls,           \* the store calls that call has made, in order
    ncalls,          \* process_document calls started
    batches,         \* per store_child_chunks call: its size and outcome
    results,         \* what the last retrieve_parent_chunks call returned
    stream,          \* the frame of event_generator and generate_stream
    events,          \* the events the stream endpoint has emitted
    reply,           \* the frame of the chat endpoint and generate
    workers,         \* the frames of callers using VectorService directly
    held,            \* the callers holding a connection of the pool
    split,           \* the frame of a call of one of the splitters
    settings,        \* the frame of Settings(): the environment and the outcome
    upload,          \* the upload endpoint: its responses and background tasks
    session_state    \* the Streamlit session and the frame of its chat handler

storeVars == <<pool, embeddings, parent_chunks, child_chunks, tx, usedIds>>
taskVars == <<task, calls, ncalls, batches>>
streamVars == <<stream, events>>
callerVars == <<workers, held>>
edgeVars == <<settings, upload, session_state>>
vars == <<pool, embeddings, parent_chunks, child_chunks, tx, usedIds,
          task, calls, ncalls, batches, results, stream, events,
          reply, workers, held, split, settings, upload, session_state>>

NoTx == [open |-> FALSE, rows |-> <<>>, locked |-> {}]
NoResults == [status |-> "none"]
IdleStream ==
    [pc |-> "idle", messages |-> <<>>, query |-> <<>>, retrieved |-> <<>>,
     sources |-> <<>>, context |-> <<>>, langchain_messages |-> <<>>,
     buffer |-> <<>>, produced |-> 0, ep_sources |-> <<>>, chunk_count |-> 0,
     raised |-> "", invoked |-> <<>>, answer |-> <<>>]
IdleReply ==
    [pc |-> "idle", messages |-> <<>>, query |-> <<>>, retrieved |-> <<>>,
     sources |-> <<>>, context |-> <<>>, langchain_messages |-> <<>>,
     response |-> [response |-> <<>>, sources |-> <<>>], raised |-> "",
     invoked |-> <<>>]
IdleSplit ==
    [pc |-> "idle", op |-> None, text |-> <<>>, chunk_size |-> <<>>,
     chunk_overlap |-> <<>>, limit |-> 0, chunks |-> <<>>]
IdleSettings == [pc |-> "idle", env |-> <<>>, values |-> <<>>]
IdleUpload == [responses |-> <<>>, background |-> <<>>]
IdleSession ==
    [pc |-> "idle", messages |-> <<>>, prompt |-> <<>>,
     chat_request |-> [messages |-> <<>>, query |-> <<>>],
     status_code |-> 0, turns |-> 0]
\* the concurrent callers of VectorService and the frame of a caller's call
Workers == 1..NumWorkers
IdleWorker ==
    [pc |-> "idle", op |-> None, args |-> <<>>, embedded |-> <<>>,
     rows |-> <<>>, error |-> None]
IdleTask ==
    [pc |-> "idle", filename |-> None, file_content |-> None, parents |-> <<>>,
     idx |-> 0, parent_id |-> None, children |-> <<>>, embeddings_list |-> <<>>,
     inserted |-> 0, total_child_chunks |-> 0, result |-> None, error |-> None]

\* ---------------------------------------------------------------- similarity

\* 100 * cos of 0, 45, 90, 135, 180 degrees
CosTable == <<100, 71, 0, -71, -100>>

AngleBetween(a, b) ==
    LET d == IF a >= b THEN a - b ELSE b - a IN
    IF d % 8 > 4 THEN 8 - (d % 8) ELSE d % 8

\* pgvector's <=> (cosine distance), in hundredths
CosineDistance(a, b) == 100 - CosTable[AngleBetween(a, b) + 1]

\* ---------------------------------------------------------------- VectorService

RECURSIVE SortAsc(_)
\* the ids of S in ascending order (ORDER BY p.id)
SortAsc(S) ==
    IF S = {} THEN <<>>
    ELSE LET m == CHOOSE x \in S : \A y \in S : x <= y
         IN  <<m>> \o SortAsc(S \ {m})

Min(a, b) == IF a <= b THEN a ELSE b

\* a metadata argument is <<>> for None and <<d>> for the dict d, the empty
\* dict being the empty function
EmptyDict == <<>>

\* json.dumps(metadata) if metadata else None: the value of the metadata
\* column, <<>> for NULL and <<d>> for the JSON text of the dict d
JsonColumn(metadata) ==
    IF metadata = <<>> \/ DOMAIN metadata[1] = {} THEN <<>> ELSE metadata

\* json.loads(row["metadata"]) if row["metadata"] else {}
JsonLoads(column) == IF column = <<>> THEN EmptyDict ELSE column[1]

\* the row retrieve_parent_chunks builds from a fetched row
ResultRow(parents, pid, similarity) ==
    [id |-> pid,
     document_name |-> parents[pid].document_name,
     content |-> parents[pid].content,
     page_number |-> parents[pid].page_number,
     section_title |-> parents[pid].section_title,
     metadata |-> JsonLoads(parents[pid].metadata),
     similarity |-> similarity]

\* the child rows of parent pid that the JOIN pairs with it
ChildrenOf(children, pid) ==
    {i \in 1..Len(children) : children[i].parent_id = pid}

\* the smallest cosine distance of a child of pid to the query
BestDistance(children, pid, query_embedding) ==
    LET ds == {CosineDistance(children[i].embedding, query_embedding) :
                 i \in ChildrenOf(children, pid)}
    IN  CHOOSE d \in ds : \A e \in ds : d <= e

\* the same query without DISTINCT ON (p.id): one row per joined child, in
\* (p.id, distance) order
FetchRowsPerChild(parents, children, query_embedding, top_k) ==
    LET joined == {pid \in DOMAIN parents : ChildrenOf(children, pid) # {}}
        ordered == SortAsc(joined)
        RowsOf(pid) ==
            LET ds == SortAsc({CosineDistance(children[i].embedding, query_embedding) :
                                 i \in ChildrenOf(children, pid)})
                per == [d \in 1..Len(ds) |->
                          Cardinality({i \in ChildrenOf(children, pid) :
                             CosineDistance(children[i].embedding, query_embedding) = ds[d]})]
            IN  Concat([d \in 1..Len(ds) |->
                          [n \in 1..per[d] |-> ResultRow(parents, pid, 100 - ds[d])]])
        all == Concat([n \in 1..Len(ordered) |-> RowsOf(ordered[n])])
    IN  SubSeq(all, 1, Min(top_k, Len(all)))

\* the query written from the parents' side (parent_chunks p LEFT JOIN
\* child_chunks c): a parent without children has a row too, its
\* similarity NULL, read here as 0
FetchRowsLeftJoin(parents, children, query_embedding, top_k) ==
    LET ordered == SortAsc(DOMAIN parents)
    IN  [n \in 1..Min(top_k, Len(ordered)) |->
            ResultRow(parents, ordered[n],
                      IF ChildrenOf(children, ordered[n]) = {} THEN 0
                      ELSE 100 - BestDistance(children, ordered[n], query_embedding))]

\* SELECT DISTINCT ON (p.id) ... FROM child_chunks c JOIN parent_chunks p
\* ON c.parent_id = p.id ORDER BY p.id, c.embedding <=> $1 LIMIT $2:
\* per parent id its closest child's row, with 1 - distance as similarity,
\* the rows in ascending id order, the first top_k of them
FetchRows(parents, children, query_embedding, top_k) ==
    LET joined == {pid \in DOMAIN parents : ChildrenOf(children, pid) # {}}
        ordered == SortAsc(joined)
    IN  [n \in 1..Min(top_k, Len(ordered)) |->
            ResultRow(parents, ordered[n],
                      100 - BestDistance(children, ordered[n], query_embedding))]

\* top_k = top_k or settings.top_k_retrieval; the argument is <<>> for None
\* and <<k>> for the integer k
EffectiveTopK(top_k) ==
    IF top_k = <<>> \/ top_k[1] = 0 THEN top_k_retrieval ELSE top_k[1]

\* INSERT ... ON CONFLICT (id) DO NOTHING: an existing row is kept as it is
InsertParentOnce(parents, parent_id, row) ==
    IF parent_id \in DOMAIN parents
    THEN parents
    ELSE [i \in DOMAIN parents \cup {parent_id} |->
            IF i = parent_id THEN row ELSE parents[i]]

\* an upsert that sets every column from the call (DO UPDATE SET
\* document_name, content, page_number, section_title, metadata)
UpsertParentAllColumns(parents, parent_id, row) ==
    [i \in DOMAIN parents \cup {parent_id} |->
        IF i = parent_id THEN row ELSE parents[i]]

\* INSERT ... ON CONFLICT (id) DO UPDATE SET content, metadata
UpsertParent(parents, parent_id, row) ==
    IF parent_id \in DOMAIN parents
    THEN [parents EXCEPT ![parent_id].content = row.content,
                         ![parent_id].metadata = row.metadata]
    ELSE [i \in DOMAIN parents \cup {parent_id} |->
            IF i = parent_id THEN row ELSE parents[i]]

\* VectorService.initialize, run once by the application's lifespan
Initialize ==
    /\ pool = None
    /\ pool' = "pool"
    /\ embeddings' = "embeddings"
    /\ results' = NoResults
    /\ UNCHANGED <<parent_chunks, child_chunks, tx, usedIds, taskVars, streamVars, reply, callerVars, split, edgeVars>>

\* the parent row an open child-batch transaction holds a key-share lock on
\* (taken by the foreign-key check of its first INSERT)
LockedParents == IF tx.open THEN tx.locked ELSE {}

\* a delete_document on a schema whose foreign key has no ON DELETE CASCADE
\* and is not enforced: the parents go, their children stay
DeleteDocumentParentsOnly(document_name) ==
    LET gone == {pid \in DOMAIN parent_chunks :
                    parent_chunks[pid].document_name = document_name}
    IN  /\ pool # None
        /\ gone \cap LockedParents = {}
        /\ parent_chunks' = [pid \in DOMAIN parent_chunks \ gone |-> parent_chunks[pid]]
        /\ results' = NoResults
        /\ UNCHANGED <<pool, embeddings, child_chunks, tx, usedIds, taskVars, streamVars,
                       reply, callerVars, split, edgeVars>>

\* VectorService.delete_document: DELETE FROM parent_chunks WHERE
\* document_name = $1, cascading to child_chunks; the DELETE waits for a
\* transaction that holds a lock on one of the rows
DeleteDocument(document_name) ==
    LET gone == {pid \in DOMAIN parent_chunks :
                    parent_chunks[pid].document_name = document_name}
    IN  /\ pool # None
        /\ gone \cap LockedParents = {}
        /\ parent_chunks' = [pid \in DOMAIN parent_chunks \ gone |-> parent_chunks[pid]]
        /\ child_chunks' = SelectSeq(child_chunks, LAMBDA c : c.parent_id \notin gone)
        /\ results' = NoResults
        /\ UNCHANGED <<pool, embeddings, tx, usedIds, taskVars, streamVars, reply, callerVars, split, edgeVars>>

\* VectorService.retrieve_parent_chunks(query, top_k) returning its rows;
\* the query's embedding is whatever aembed_query answers
RetrieveParentChunks(top_k) ==
    /\ embeddings # None
    /\ \E query_embedding \in Angles :
          results' = [status |-> "ok",
                      query_embedding |-> query_embedding,
                      top_k |-> EffectiveTopK(top_k),
                      rows |-> FetchRows(parent_chunks, child_chunks,
                                         query_embedding, EffectiveTopK(top_k))]
    /\ UNCHANGED <<storeVars, taskVars, streamVars, reply, callerVars, split, edgeVars>>

\* retrieve_parent_chunks raising: the guard on self.embeddings, a failing
\* aembed_query or a failing fetch
RetrieveParentChunksRaises ==
    /\ \E error \in IF embeddings = None THEN {EmbeddingsNotInitialized}
                    ELSE {CapabilityError, StoreError} :
          results' = [status |-> "raised", error |-> error]
    /\ UNCHANGED <<storeVars, taskVars, streamVars, reply, callerVars, split, edgeVars>>

\* ---------------------------------------------------------------- IngestionService

RECURSIVE Join(_, _)
\* sep.join(parts)
Join(parts, sep) ==
    IF parts = <<>> THEN <<>>
    ELSE IF Len(parts) = 1 THEN parts[1]
    ELSE parts[1] \o sep \o Join(Tail(parts), sep)

\* an extraction that ignores the failure and keeps the pages it could read
extract_text_lenient(file_content) ==
    [raised |-> FALSE,
     text |-> Join(NonEmpty(file_content.pages), <<"\n", "\n">>)]

\* IngestionService._extract_text_from_pdf: the pages' texts that are not
\* empty joined by a blank line, or the ValueError it wraps any failure in
extract_text_from_pdf(file_content) ==
    IF file_content.malformed
    THEN [raised |-> TRUE, text |-> <<>>]
    ELSE [raised |-> FALSE,
          text |-> Join(NonEmpty(file_content.pages), <<"\n", "\n">>)]

\* one entry of the call log: a store call, its arguments and how it ended
Call(op, parent_id, idx, outcome) ==
    [op |-> op, parent_id |-> parent_id, idx |-> idx, outcome |-> outcome]

\* the log with the outcome of its last call set
Ended(log, outcome) == [log EXCEPT ![Len(log)].outcome = outcome]

\* the batches with the state of the last one set
Settled(bs, state) == [bs EXCEPT ![Len(bs)].state = state]

\* process_document raising error out of its current step
Raise(error) == task' = [task EXCEPT !.pc = "raised", !.error = error]

\* process_document(file_content, filename) up to its first await: extract,
\* split into parents, and for a document with parents draw the first uuid4
ProcessDocument(u) ==
    /\ task.pc \in {"idle", "done", "raised"}
    /\ ncalls < MaxCalls
    /\ ncalls' = ncalls + 1
    /\ calls' = <<>>
    /\ LET extracted == extract_text_from_pdf(u.file)
           frame == [IdleTask EXCEPT !.filename = u.filename, !.file_content = u.file]
           parents == parent_splitter(extracted.text)
       IN  IF extracted.raised
           THEN /\ task' = [frame EXCEPT !.pc = "raised", !.error = ExtractionError]
                /\ UNCHANGED usedIds
           ELSE IF parents = <<>>
           THEN /\ task' = [frame EXCEPT !.pc = "done",
                               !.result = [filename |-> u.filename, parent_chunks |-> 0,
                                           child_chunks |-> 0, status |-> "success"]]
                /\ UNCHANGED usedIds
           ELSE /\ Cardinality(Ids \ usedIds) >= Len(parents)
                /\ \E id \in Ids \ usedIds :
                      /\ task' = [frame EXCEPT !.pc = "store_parent",
                                               !.parents = parents, !.parent_id = id]
                      /\ usedIds' = usedIds \cup {id}
    /\ results' = NoResults
    /\ UNCHANGED <<pool, embeddings, parent_chunks, child_chunks, tx, batches, streamVars, reply, callerVars, split, edgeVars>>

\* await store_parent_chunk(...) returning, then the child split and the
\* entry of store_child_chunks up to its await on aembed_documents
StoreParentChunk ==
    /\ task.pc = "store_parent"
    /\ pool # None
    /\ LET parent_chunk == task.parents[task.idx + 1]
           row == [document_name |-> task.filename,
                   content |-> parent_chunk,
                   page_number |-> None,
                   section_title |-> None,
                   metadata |-> JsonColumn(<<[chunk_index |-> task.idx,
                                               total_chunks |-> Len(task.parents)]>>)]
           children == child_splitter(parent_chunk)
       IN  /\ parent_chunks' = UpsertParent(parent_chunks, task.parent_id, row)
           /\ IF embeddings = None
              THEN /\ task' = [task EXCEPT !.pc = "raised", !.children = children,
                                           !.error = EmbeddingsNotInitialized]
                   /\ calls' = calls
                        \o <<Call("store_parent_chunk", task.parent_id, task.idx, "ok"),
                             Call("store_child_chunks", task.parent_id, task.idx, "raised")>>
                   /\ batches' = Append(batches, [size |-> Len(children), state |-> "failed"])
              ELSE /\ task' = [task EXCEPT !.pc = "embed", !.children = children,
                                           !.inserted = 0]
                   /\ calls' = calls
                        \o <<Call("store_parent_chunk", task.parent_id, task.idx, "ok"),
                             Call("store_child_chunks", task.parent_id, task.idx, "pending")>>
                   /\ batches' = Append(batches, [size |-> Len(children), state |-> "pending"])
    /\ results' = NoResults
    /\ UNCHANGED <<pool, embeddings, child_chunks, tx, usedIds, ncalls, streamVars, reply, callerVars, split, edgeVars>>

\* process_document catching the failure of store_parent_chunk and going on
\* to the children of the same parent
StoreParentChunkSwallowed ==
    /\ task.pc = "store_parent"
    /\ LET children == child_splitter(task.parents[task.idx + 1]) IN
          /\ task' = [task EXCEPT !.pc = "embed", !.children = children, !.inserted = 0]
          /\ calls' = calls
                \o <<Call("store_parent_chunk", task.parent_id, task.idx, "raised"),
                     Call("store_child_chunks", task.parent_id, task.idx, "pending")>>
          /\ batches' = Append(batches, [size |-> Len(children), state |-> "pending"])
    /\ results' = NoResults
    /\ UNCHANGED <<storeVars, ncalls, streamVars, reply, callerVars, split, edgeVars>>

\* await store_parent_chunk(...) raising: no pool, or the store fails
StoreParentChunkRaises ==
    /\ task.pc = "store_parent"
    /\ \E error \in IF pool = None THEN {PoolIsNone} ELSE {StoreError} : Raise(error)
    /\ calls' = Append(calls, Call("store_parent_chunk", task.parent_id, task.idx, "raised"))
    /\ results' = NoResults
    /\ UNCHANGED <<storeVars, ncalls, batches, streamVars, reply, callerVars, split, edgeVars>>

\* store_child_chunks: aembed_documents answers one embedding per child
EmbedDocuments ==
    /\ task.pc = "embed"
    /\ \E embeddings_list \in [1..Len(task.children) -> Angles] :
          task' = [task EXCEPT !.pc = "acquire", !.embeddings_list = embeddings_list]
    /\ results' = NoResults
    /\ UNCHANGED <<storeVars, calls, ncalls, batches, streamVars, reply, callerVars, split, edgeVars>>

\* store_child_chunks: aembed_documents raises, before any store access
EmbedDocumentsRaises ==
    /\ task.pc = "embed"
    /\ Raise(CapabilityError)
    /\ calls' = Ended(calls, "raised")
    /\ batches' = Settled(batches, "failed")
    /\ results' = NoResults
    /\ UNCHANGED <<storeVars, ncalls, streamVars, reply, callerVars, split, edgeVars>>

\* store_child_chunks: pool.acquire() and conn.transaction() entered
BeginTransaction ==
    /\ task.pc = "acquire"
    /\ tx' = [open |-> TRUE, rows |-> <<>>, locked |-> {}]
    /\ task' = [task EXCEPT !.pc = "insert"]
    /\ results' = NoResults
    /\ UNCHANGED <<pool, embeddings, parent_chunks, child_chunks, usedIds,
                   calls, ncalls, batches, streamVars, reply, callerVars, split, edgeVars>>

\* the child row the loop of store_child_chunks inserts next; batch tags the
\* row with the store_child_chunks call that wrote it
NextChildRow ==
    [parent_id |-> task.parent_id,
     content |-> task.children[task.inserted + 1],
     embedding |-> task.embeddings_list[task.inserted + 1],
     metadata |-> [parent_index |-> task.idx],
     batch |-> Len(batches)]

\* the INSERT run on the bare connection, outside any transaction: the row
\* is committed, and visible, at once
InsertChildAutocommit ==
    /\ task.pc = "insert"
    /\ task.inserted < Len(task.children)
    /\ task.parent_id \in DOMAIN parent_chunks
    /\ child_chunks' = Append(child_chunks, NextChildRow)
    /\ task' = [task EXCEPT !.inserted = task.inserted + 1]
    /\ results' = NoResults
    /\ UNCHANGED <<pool, embeddings, parent_chunks, tx, usedIds,
                   calls, ncalls, batches, streamVars, reply, callerVars, split, edgeVars>>

\* store_child_chunks: one INSERT INTO child_chunks inside the transaction;
\* the row stays invisible to other connections until the commit
InsertChild ==
    /\ task.pc = "insert"
    /\ task.inserted < Len(task.children)
    /\ task.parent_id \in DOMAIN parent_chunks
    /\ tx' = [tx EXCEPT !.rows = Append(tx.rows, NextChildRow),
                        !.locked = {task.parent_id}]
    /\ task' = [task EXCEPT !.inserted = task.inserted + 1]
    /\ results' = NoResults
    /\ UNCHANGED <<pool, embeddings, parent_chunks, child_chunks, usedIds,
                   calls, ncalls, batches, streamVars, reply, callerVars, split, edgeVars>>

\* store_child_chunks: an INSERT raises (the parent row is gone, or the store
\* fails); leaving the transaction block rolls the batch back
InsertChildRaises ==
    /\ task.pc = "insert"
    /\ task.inserted < Len(task.children)
    /\ \E error \in IF task.parent_id \in DOMAIN parent_chunks
                    THEN {StoreError} ELSE {ForeignKeyViolation} : Raise(error)
    /\ tx' = NoTx
    /\ calls' = Ended(calls, "raised")
    /\ batches' = Settled(batches, "failed")
    /\ results' = NoResults
    /\ UNCHANGED <<pool, embeddings, parent_chunks, child_chunks, usedIds,
                   ncalls, streamVars, reply, callerVars, split, edgeVars>>

\* a process_document that reports the children of its last parent only
\* (total_child_chunks = len(child_chunks) instead of +=)
CommitChildrenCountsLast ==
    /\ task.pc = "insert"
    /\ task.inserted = Len(task.children)
    /\ child_chunks' = child_chunks \o tx.rows
    /\ tx' = NoTx
    /\ calls' = Ended(calls, "ok")
    /\ batches' = Settled(batches, "committed")
    /\ LET total == Len(task.children) IN
       IF task.idx + 1 < Len(task.parents)
       THEN \E id \in Ids \ usedIds :
               /\ task' = [task EXCEPT !.pc = "store_parent", !.idx = task.idx + 1,
                                       !.parent_id = id, !.total_child_chunks = total]
               /\ usedIds' = usedIds \cup {id}
       ELSE /\ task' = [task EXCEPT !.pc = "done", !.total_child_chunks = total,
                           !.result = [filename |-> task.filename,
                                       parent_chunks |-> Len(task.parents),
                                       child_chunks |-> total,
                                       status |-> "success"]]
            /\ UNCHANGED usedIds
    /\ results' = NoResults
    /\ UNCHANGED <<pool, embeddings, parent_chunks, ncalls, streamVars, reply, callerVars, split, edgeVars>>

\* store_child_chunks: the transaction commits and the call returns; then
\* process_document counts the children and goes on to the next parent
\* (drawing its uuid4) or returns its result
CommitChildren ==
    /\ task.pc = "insert"
    /\ task.inserted = Len(task.children)
    /\ child_chunks' = child_chunks \o tx.rows
    /\ tx' = NoTx
    /\ calls' = Ended(calls, "ok")
    /\ batches' = Settled(batches, "committed")
    /\ LET total == task.total_child_chunks + Len(task.children) IN
       IF task.idx + 1 < Len(task.parents)
       THEN \E id \in Ids \ usedIds :
               /\ task' = [task EXCEPT !.pc = "store_parent", !.idx = task.idx + 1,
                                       !.parent_id = id, !.total_child_chunks = total]
               /\ usedIds' = usedIds \cup {id}
       ELSE /\ task' = [task EXCEPT !.pc = "done", !.total_child_chunks = total,
                           !.result = [filename |-> task.filename,
                                       parent_chunks |-> Len(task.parents),
                                       child_chunks |-> total,
                                       status |-> "success"]]
            /\ UNCHANGED usedIds
    /\ results' = NoResults
    /\ UNCHANGED <<pool, embeddings, parent_chunks, ncalls, streamVars, reply, callerVars, split, edgeVars>>

\* process_document catching a failed commit, skipping the parent's children
\* and going on as if the call had returned
CommitRaisesSwallowed ==
    /\ task.pc = "insert"
    /\ task.inserted = Len(task.children)
    /\ tx' = NoTx
    /\ calls' = Ended(calls, "raised")
    /\ batches' = Settled(batches, "failed")
    /\ IF task.idx + 1 < Len(task.parents)
       THEN \E id \in Ids \ usedIds :
               /\ task' = [task EXCEPT !.pc = "store_parent", !.idx = task.idx + 1,
                                       !.parent_id = id]
               /\ usedIds' = usedIds \cup {id}
       ELSE /\ task' = [task EXCEPT !.pc = "done",
                           !.result = [filename |-> task.filename,
                                       parent_chunks |-> Len(task.parents),
                                       child_chunks |-> task.total_child_chunks,
                                       status |-> "success"]]
            /\ UNCHANGED usedIds
    /\ results' = NoResults
    /\ UNCHANGED <<pool, embeddings, parent_chunks, child_chunks, ncalls, streamVars, reply, callerVars, split, edgeVars>>

\* store_child_chunks: the commit itself fails; nothing of the batch is kept
CommitRaises ==
    /\ task.pc = "insert"
    /\ task.inserted = Len(task.children)
    /\ Raise(StoreError)
    /\ tx' = NoTx
    /\ calls' = Ended(calls, "raised")
    /\ batches' = Settled(batches, "failed")
    /\ results' = NoResults
    /\ UNCHANGED <<pool, embeddings, parent_chunks, child_chunks, usedIds,
                   ncalls, streamVars, reply, callerVars, split, edgeVars>>

\* ---------------------------------------------------------------- store specification

Init ==
    /\ pool = None
    /\ embeddings = None
    /\ parent_chunks = <<>>
    /\ child_chunks = <<>>
    /\ tx = NoTx
    /\ usedIds = {}
    /\ task = IdleTask
    /\ calls = <<>>
    /\ ncalls = 0
    /\ batches = <<>>
    /\ results = NoResults
    /\ stream = IdleStream
    /\ events = <<>>
    /\ reply = IdleReply
    /\ workers = [w \in Workers |-> IdleWorker]
    /\ held = {}
    /\ split = IdleSplit
    /\ settings = IdleSettings
    /\ upload = IdleUpload
    /\ session_state = IdleSession

DocumentNames == {u.filename : u \in Uploads}
TopKArguments == {<<>>} \cup {<<k>> : k \in 0..MaxTopK}

\* the caller of retrieve_parent_chunks takes what it returned
TakeResults ==
    /\ results.status # "none"
    /\ results' = NoResults
    /\ UNCHANGED <<storeVars, taskVars, streamVars, reply, callerVars, split, edgeVars>>

\* no answer of retrieve_parent_chunks is waiting for its caller: a call runs
\* against the store as it is at its fetch, and its caller takes the answer
\* before the next store step
Quiet == results.status = "none"

Next ==
    \/ Quiet /\ Initialize
    \/ Quiet /\ \E u \in Uploads : ProcessDocument(u)
    \/ Quiet /\ StoreParentChunk
    \/ Quiet /\ StoreParentChunkRaises
    \/ Quiet /\ EmbedDocuments
    \/ Quiet /\ EmbedDocumentsRaises
    \/ Quiet /\ BeginTransaction
    \/ Quiet /\ InsertChild
    \/ Quiet /\ InsertChildRaises
    \/ Quiet /\ CommitChildren
    \/ Quiet /\ CommitRaises
    \/ Quiet /\ \E document_name \in DocumentNames : DeleteDocument(document_name)
    \/ Quiet /\ \E top_k \in TopKArguments : RetrieveParentChunks(top_k)
    \/ Quiet /\ RetrieveParentChunksRaises
    \/ TakeResults

Spec == Init /\ [][Next]_vars

\* ---------------------------------------------------------------- VectorService, called directly
\* The four store operations called by concurrent callers, one step per
\* await: the embedding capability, pool.acquire(), each statement.  A
\* connection is held from pool.acquire() to the end of the `async with`
\* block, which releases it however the block is left.

\* the arguments of the store_parent_chunk calls: an existing id with new
\* content and metadata, an existing id with another document name and an
\* empty metadata dict, and a new id with no metadata
ParentArguments ==
    { [parent_id |-> 1, document_name |-> "b.pdf", content |-> <<"b">>,
       page_number |-> None, section_title |-> None,
       metadata |-> <<[chunk_index |-> 0, total_chunks |-> 1]>>],
      [parent_id |-> 1, document_name |-> "c.pdf", content |-> <<"a">>,
       page_number |-> 7, section_title |-> "Intro",
       metadata |-> <<EmptyDict>>],
      [parent_id |-> 4, document_name |-> "c.pdf", content |-> <<"b">>,
       page_number |-> None, section_title |-> None,
       metadata |-> <<>>] }

\* the arguments of the store_child_chunks calls: two children of a stored
\* parent, and a child of a parent id that was never stored
ChildArguments ==
    { [parent_id |-> 1, child_chunks |-> << <<"b">>, <<"b">> >>,
       metadata |-> <<[parent_index |-> 0]>>],
      [parent_id |-> 5, child_chunks |-> << <<"b">> >>,
       metadata |-> <<[parent_index |-> 0]>>] }

\* the frame of a call that has started, and of one that has ended
Entered(op, args, pc) == [IdleWorker EXCEPT !.pc = pc, !.op = op, !.args = args]
Returned(op) == [IdleWorker EXCEPT !.pc = "returned", !.op = op]
Raised(op, error) == [IdleWorker EXCEPT !.pc = "raised", !.op = op, !.error = error]

\* store_parent_chunk(...) up to pool.acquire(); self.pool being None is an
\* AttributeError on `self.pool.acquire`
CallStoreParentChunk(w, args) ==
    /\ workers[w].pc = "idle"
    /\ workers' = [workers EXCEPT ![w] =
                      IF pool = None THEN Raised("store_parent_chunk", PoolIsNone)
                      ELSE Entered("store_parent_chunk", args, "acquire")]
    /\ UNCHANGED <<storeVars, taskVars, results, streamVars, reply, held, split, edgeVars>>

\* delete_document(document_name) up to pool.acquire()
CallDeleteDocument(w, document_name) ==
    /\ workers[w].pc = "idle"
    /\ workers' = [workers EXCEPT ![w] =
                      IF pool = None THEN Raised("delete_document", PoolIsNone)
                      ELSE Entered("delete_document",
                                   [document_name |-> document_name], "acquire")]
    /\ UNCHANGED <<storeVars, taskVars, results, streamVars, reply, held, split, edgeVars>>

\* store_child_chunks(...) up to its await on aembed_documents
CallStoreChildChunks(w, args) ==
    /\ workers[w].pc = "idle"
    /\ workers' = [workers EXCEPT ![w] =
                      IF embeddings = None
                      THEN Raised("store_child_chunks", EmbeddingsNotInitialized)
                      ELSE Entered("store_child_chunks", args, "embed")]
    /\ UNCHANGED <<storeVars, taskVars, results, streamVars, reply, held, split, edgeVars>>

\* retrieve_parent_chunks(query) up to its await on aembed_query
CallRetrieveParentChunks(w) ==
    /\ workers[w].pc = "idle"
    /\ workers' = [workers EXCEPT ![w] =
                      IF embeddings = None
                      THEN Raised("retrieve_parent_chunks", EmbeddingsNotInitialized)
                      ELSE Entered("retrieve_parent_chunks",
                                   [query |-> <<"q">>, top_k |-> <<>>], "embed")]
    /\ UNCHANGED <<storeVars, taskVars, results, streamVars, reply, held, split, edgeVars>>

\* aembed_documents answers one embedding per child, the same for equal
\* texts; the call goes on to pool.acquire()
AembedDocuments(w) ==
    /\ workers[w].pc = "embed"
    /\ workers[w].op = "store_child_chunks"
    /\ \E e \in Angles :
          workers' = [workers EXCEPT
                         ![w].pc = "acquire",
                         ![w].embedded = [i \in 1..Len(workers[w].args.child_chunks) |-> e]]
    /\ UNCHANGED <<storeVars, taskVars, results, streamVars, reply, held, split, edgeVars>>

\* aembed_query answers the query's embedding
AembedQuery(w) ==
    /\ workers[w].pc = "embed"
    /\ workers[w].op = "retrieve_parent_chunks"
    /\ \E query_embedding \in Angles :
          workers' = [workers EXCEPT ![w].pc = "acquire",
                                     ![w].embedded = <<query_embedding>>]
    /\ UNCHANGED <<storeVars, taskVars, results, streamVars, reply, held, split, edgeVars>>

\* the embedding capability raises, before the pool is touched
AembedRaises(w) ==
    /\ workers[w].pc = "embed"
    /\ workers' = [workers EXCEPT ![w] = Raised(workers[w].op, CapabilityError)]
    /\ UNCHANGED <<storeVars, taskVars, results, streamVars, reply, held, split, edgeVars>>

\* pool.acquire() hands out a connection once the pool has one free, and
\* store_child_chunks enters conn.transaction()
PoolAcquire(w) ==
    /\ workers[w].pc = "acquire"
    /\ Cardinality(held) < neon_db_pool_size
    /\ held' = held \cup {w}
    /\ workers' = [workers EXCEPT ![w].pc =
                      IF workers[w].op = "store_child_chunks" THEN "insert"
                      ELSE "execute"]
    /\ UNCHANGED <<storeVars, taskVars, results, streamVars, reply, split, edgeVars>>

\* store_parent_chunk: the INSERT ... ON CONFLICT statement, and the return
ExecuteUpsert(w) ==
    /\ workers[w].pc = "execute"
    /\ workers[w].op = "store_parent_chunk"
    /\ LET args == workers[w].args
           row == [document_name |-> args.document_name,
                   content |-> args.content,
                   page_number |-> args.page_number,
                   section_title |-> args.section_title,
                   metadata |-> JsonColumn(args.metadata)]
       IN  parent_chunks' = UpsertParent(parent_chunks, args.parent_id, row)
    /\ held' = held \ {w}
    /\ workers' = [workers EXCEPT ![w] = Returned(workers[w].op)]
    /\ UNCHANGED <<pool, embeddings, child_chunks, tx, usedIds,
                   taskVars, results, streamVars, reply, split, edgeVars>>

\* the parent rows the open child-batch transactions hold a lock on
LockedByWorkers ==
    {workers[v].args.parent_id :
        v \in {u \in Workers : workers[u].pc = "insert" /\ workers[u].rows # <<>>}}

\* a DELETE on a schema without ON DELETE CASCADE and without the foreign
\* key: the children of the deleted parents stay
ExecuteDeleteParentsOnly(w) ==
    /\ workers[w].pc = "execute"
    /\ workers[w].op = "delete_document"
    /\ LET gone == {pid \in DOMAIN parent_chunks :
                      parent_chunks[pid].document_name = workers[w].args.document_name}
       IN  parent_chunks' = [pid \in DOMAIN parent_chunks \ gone |-> parent_chunks[pid]]
    /\ held' = held \ {w}
    /\ workers' = [workers EXCEPT ![w] = Returned(workers[w].op)]
    /\ UNCHANGED <<pool, embeddings, child_chunks, tx, usedIds,
                   taskVars, results, streamVars, reply, split, edgeVars>>

\* delete_document: DELETE FROM parent_chunks WHERE document_name = $1,
\* cascading to child_chunks, and the return; the DELETE waits for a
\* transaction that holds a lock on one of the rows
ExecuteDelete(w) ==
    /\ workers[w].pc = "execute"
    /\ workers[w].op = "delete_document"
    /\ LET gone == {pid \in DOMAIN parent_chunks :
                      parent_chunks[pid].document_name = workers[w].args.document_name}
       IN  /\ gone \cap LockedByWorkers = {}
           /\ parent_chunks' = [pid \in DOMAIN parent_chunks \ gone |-> parent_chunks[pid]]
           /\ child_chunks' = SelectSeq(child_chunks, LAMBDA c : c.parent_id \notin gone)
    /\ held' = held \ {w}
    /\ workers' = [workers EXCEPT ![w] = Returned(workers[w].op)]
    /\ UNCHANGED <<pool, embeddings, tx, usedIds, taskVars, results, streamVars, reply, split, edgeVars>>

\* retrieve_parent_chunks: conn.fetch and the return of the rows
Fetch(w) ==
    /\ workers[w].pc = "execute"
    /\ workers[w].op = "retrieve_parent_chunks"
    /\ results' = [status |-> "ok",
                   query_embedding |-> workers[w].embedded[1],
                   top_k |-> EffectiveTopK(workers[w].args.top_k),
                   rows |-> FetchRows(parent_chunks, child_chunks,
                                      workers[w].embedded[1],
                                      EffectiveTopK(workers[w].args.top_k))]
    /\ held' = held \ {w}
    /\ workers' = [workers EXCEPT ![w] = Returned(workers[w].op)]
    /\ UNCHANGED <<storeVars, taskVars, streamVars, reply, split, edgeVars>>

\* the statement of store_parent_chunk, delete_document or
\* retrieve_parent_chunks raises: the exception leaves the `async with`
\* block, which releases the connection
ExecuteRaises(w) ==
    /\ workers[w].pc = "execute"
    /\ held' = held \ {w}
    /\ workers' = [workers EXCEPT ![w] = Raised(workers[w].op, StoreError)]
    /\ UNCHANGED <<storeVars, taskVars, results, streamVars, reply, split, edgeVars>>

\* store_child_chunks: one INSERT INTO child_chunks inside the transaction
ExecuteInsert(w) ==
    /\ workers[w].pc = "insert"
    /\ Len(workers[w].rows) < Len(workers[w].args.child_chunks)
    /\ workers[w].args.parent_id \in DOMAIN parent_chunks
    /\ LET n == Len(workers[w].rows) + 1
           row == [parent_id |-> workers[w].args.parent_id,
                   content |-> workers[w].args.child_chunks[n],
                   embedding |-> workers[w].embedded[n],
                   metadata |-> JsonLoads(workers[w].args.metadata),
                   batch |-> 0]
       IN  workers' = [workers EXCEPT ![w].rows = Append(@, row)]
    /\ UNCHANGED <<storeVars, taskVars, results, streamVars, reply, held, split, edgeVars>>

\* a store_child_chunks that takes its connection with a bare
\* `await pool.acquire()` and releases it only on the way out of a
\* successful batch
ExecuteInsertRaisesKeepsConnection(w) ==
    /\ workers[w].pc = "insert"
    /\ Len(workers[w].rows) < Len(workers[w].args.child_chunks)
    /\ \E error \in IF workers[w].args.parent_id \in DOMAIN parent_chunks
                    THEN {StoreError} ELSE {ForeignKeyViolation} :
          workers' = [workers EXCEPT ![w] = Raised(workers[w].op, error)]
    /\ UNCHANGED <<storeVars, taskVars, results, streamVars, reply, held, split, edgeVars>>

\* store_child_chunks: an INSERT raises (no parent row with that id, or the
\* store fails): the transaction block rolls back and the `async with`
\* block releases the connection
ExecuteInsertRaises(w) ==
    /\ workers[w].pc = "insert"
    /\ Len(workers[w].rows) < Len(workers[w].args.child_chunks)
    /\ \E error \in IF workers[w].args.parent_id \in DOMAIN parent_chunks
                    THEN {StoreError} ELSE {ForeignKeyViolation} :
          workers' = [workers EXCEPT ![w] = Raised(workers[w].op, error)]
    /\ held' = held \ {w}
    /\ UNCHANGED <<storeVars, taskVars, results, streamVars, reply, split, edgeVars>>

\* store_child_chunks: the transaction commits, the connection goes back to
\* the pool and the call returns
TransactionCommit(w) ==
    /\ workers[w].pc = "insert"
    /\ Len(workers[w].rows) = Len(workers[w].args.child_chunks)
    /\ child_chunks' = child_chunks \o workers[w].rows
    /\ held' = held \ {w}
    /\ workers' = [workers EXCEPT ![w] = Returned(workers[w].op)]
    /\ UNCHANGED <<pool, embeddings, parent_chunks, tx, usedIds,
                   taskVars, results, streamVars, reply, split, edgeVars>>

\* store_child_chunks: the commit fails; nothing of the batch is kept
TransactionCommitRaises(w) ==
    /\ workers[w].pc = "insert"
    /\ Len(workers[w].rows) = Len(workers[w].args.child_chunks)
    /\ held' = held \ {w}
    /\ workers' = [workers EXCEPT ![w] = Raised(workers[w].op, StoreError)]
    /\ UNCHANGED <<storeVars, taskVars, results, streamVars, reply, split, edgeVars>>

\* the store after process_document of b.pdf drew the id 1 and that of a.pdf
\* the ids 2 and 3
StoredParents ==
    LET b == parent_splitter(extract_text_from_pdf(
                 GoodFile(<< <<"a">>, <<>>, <<"a">> >>)).text)
        a == parent_splitter(extract_text_from_pdf(
                 GoodFile(<< <<"a", "a", "a", " ", "a", "a">> >>)).text)
    IN  [pid \in 1..3 |->
           [document_name |-> IF pid = 1 THEN "b.pdf" ELSE "a.pdf",
            content |-> IF pid = 1 THEN b[1] ELSE a[pid - 1],
            page_number |-> None,
            section_title |-> None,
            metadata |-> JsonColumn(<<[chunk_index |-> IF pid = 3 THEN 1 ELSE 0,
                                       total_chunks |-> IF pid = 1 THEN 1 ELSE 2]>>)]]

\* the children of the stored parents, every embedding at angle 0
StoredChildren ==
    Concat([pid \in 1..3 |->
              LET children == child_splitter(StoredParents[pid].content) IN
              [i \in 1..Len(children) |->
                  [parent_id |-> pid,
                   content |-> children[i],
                   embedding |-> 0,
                   metadata |-> [parent_index |->
                                    StoredParents[pid].metadata[1].chunk_index],
                   batch |-> pid]]])

\* the service not initialized, or initialized over the two stored documents
InitStore ==
    /\ \/ /\ pool = None /\ embeddings = None
          /\ parent_chunks = <<>> /\ child_chunks = <<>>
          /\ usedIds = {}
       \/ /\ pool = "pool" /\ embeddings = "embeddings"
          /\ parent_chunks = StoredParents /\ child_chunks = StoredChildren
          /\ usedIds = 1..3
    /\ tx = NoTx
    /\ task = IdleTask
    /\ calls = <<>>
    /\ ncalls = 0
    /\ batches = <<>>
    /\ results = NoResults
    /\ stream = IdleStream
    /\ events = <<>>
    /\ reply = IdleReply
    /\ workers = [w \in Workers |-> IdleWorker]
    /\ held = {}
    /\ split = IdleSplit
    /\ settings = IdleSettings
    /\ upload = IdleUpload
    /\ session_state = IdleSession

NextStore ==
    \/ Quiet /\ \E w \in Workers, args \in ParentArguments : CallStoreParentChunk(w, args)
    \/ Quiet /\ \E w \in Workers, args \in ChildArguments : CallStoreChildChunks(w, args)
    \/ Quiet /\ \E w \in Workers : CallRetrieveParentChunks(w)
    \/ Quiet /\ \E w \in Workers, document_name \in DocumentNames :
                    CallDeleteDocument(w, document_name)
    \/ Quiet /\ \E w \in Workers : AembedDocuments(w)
    \/ Quiet /\ \E w \in Workers : AembedQuery(w)
    \/ Quiet /\ \E w \in Workers : AembedRaises(w)
    \/ Quiet /\ \E w \in Workers : PoolAcquire(w)
    \/ Quiet /\ \E w \in Workers : ExecuteUpsert(w)
    \/ Quiet /\ \E w \in Workers : ExecuteDelete(w)
    \/ Quiet /\ \E w \in Workers : Fetch(w)
    \/ Quiet /\ \E w \in Workers : ExecuteRaises(w)
    \/ Quiet /\ \E w \in Workers : ExecuteInsert(w)
    \/ Quiet /\ \E w \in Workers : ExecuteInsertRaises(w)
    \/ Quiet /\ \E w \in Workers : TransactionCommit(w)
    \/ Quiet /\ \E w \in Workers : TransactionCommitRaises(w)
    \/ TakeResults

SpecStore == InitStore /\ [][NextStore]_vars

\* ---------------------------------------------------------------- the splitters, called directly

\* the characters of the texts: a letter and the characters the separators
\* are made of
Alphabet == {"a", " ", "\n", "."}
\* the texts: every text of up to MaxLen characters, and the longer texts of
\* words and blanks (longer than parent_chunk_size)
Words == {"a", " "}
Texts ==
    UNION ( {[1..n -> Alphabet] : n \in 0..MaxLen}
            \cup {[1..n -> Words] : n \in (MaxLen + 1)..(MaxLen + 2)} )

\* the chunk_size and chunk_overlap arguments: <<>> for None, <<k>> for k
SizeArguments == {<<>>} \cup {<<k>> : k \in 1..MaxSize}
OverlapArguments == {<<>>} \cup {<<k>> : k \in 0..(MaxSize - 1)}

\* chunk_size or settings.child_chunk_size
EffectiveChunkSize(chunk_size) ==
    IF chunk_size = <<>> \/ chunk_size[1] = 0 THEN child_chunk_size ELSE chunk_size[1]

\* chunk_overlap or settings.child_chunk_overlap
EffectiveChunkOverlap(chunk_overlap) ==
    IF chunk_overlap = <<>> \/ chunk_overlap[1] = 0
    THEN child_chunk_overlap ELSE chunk_overlap[1]

\* IngestionService.split_text_recursive: a splitter built from the
\* arguments (the constructor refuses an overlap larger than the chunk
\* size) and applied to the text
split_text_recursive(text, chunk_size, chunk_overlap) ==
    LET size == EffectiveChunkSize(chunk_size)
        overlap == EffectiveChunkOverlap(chunk_overlap)
    IN  IF overlap > size
        THEN [raised |-> TRUE, limit |-> size, chunks |-> <<>>]
        ELSE [raised |-> FALSE, limit |-> size,
              chunks |-> SplitText(text, separators, size, overlap)]

\* a caller hands a text and the optional sizes to split_text_recursive
SplitTextRecursive(text, chunk_size, chunk_overlap) ==
    /\ split.pc = "idle"
    /\ LET out == split_text_recursive(text, chunk_size, chunk_overlap) IN
       split' = [pc |-> IF out.raised THEN "raised" ELSE "returned",
                 op |-> "split_text_recursive", text |-> text,
                 chunk_size |-> chunk_size, chunk_overlap |-> chunk_overlap,
                 limit |-> out.limit, chunks |-> out.chunks]
    /\ UNCHANGED <<storeVars, taskVars, results, streamVars, reply, callerVars, edgeVars>>

\* a caller hands a text to the parent splitter
ParentSplitter(text) ==
    /\ split.pc = "idle"
    /\ split' = [IdleSplit EXCEPT !.pc = "returned", !.op = "parent_splitter",
                                  !.text = text, !.limit = parent_chunk_size,
                                  !.chunks = parent_splitter(text)]
    /\ UNCHANGED <<storeVars, taskVars, results, streamVars, reply, callerVars, edgeVars>>

\* a caller hands a text to the child splitter
ChildSplitter(text) ==
    /\ split.pc = "idle"
    /\ split' = [IdleSplit EXCEPT !.pc = "returned", !.op = "child_splitter",
                                  !.text = text, !.limit = child_chunk_size,
                                  !.chunks = child_splitter(text)]
    /\ UNCHANGED <<storeVars, taskVars, results, streamVars, reply, callerVars, edgeVars>>

NextSplit ==
    \/ \E text \in Texts, chunk_size \in SizeArguments,
          chunk_overlap \in OverlapArguments :
            SplitTextRecursive(text, chunk_size, chunk_overlap)
    \/ \E text \in Texts : ParentSplitter(text)
    \/ \E text \in Texts : ChildSplitter(text)

SpecSplit == Init /\ [][NextSplit]_vars

\* ---------------------------------------------------------------- Settings, loaded at startup

\* the chunking fields of Settings: the default and the ge / le constraints of
\* each Field (<<>> where the Field has none)
ChunkingFields ==
    [parent_chunk_size    |-> [default |-> 2000, ge |-> <<100>>, le |-> <<>>],
     parent_chunk_overlap |-> [default |-> 200,  ge |-> <<0>>,   le |-> <<>>],
     child_chunk_size     |-> [default |-> 300,  ge |-> <<50>>,  le |-> <<500>>],
     child_chunk_overlap  |-> [default |-> 50,   ge |-> <<0>>,   le |-> <<>>]]

\* what an environment variable holds: <<>> when it is not set, <<"int", n>>
\* when its text parses to the integer n, <<"text", 0>> when it does not
Unset == <<>>
IntText(n) == <<"int", n>>
OtherText == <<"text", 0>>

\* the environments Settings() is loaded from
Environments ==
    [parent_chunk_size    : {Unset, OtherText} \cup {IntText(n) : n \in {99, 100, 300, 2000}},
     parent_chunk_overlap : {Unset} \cup {IntText(n) : n \in {-1, 0, 200}},
     child_chunk_size     : {Unset, OtherText} \cup {IntText(n) : n \in {49, 50, 300, 500, 501}},
     child_chunk_overlap  : {Unset} \cup {IntText(n) : n \in {-1, 0, 50}}]

\* pydantic's validation of one int Field: the default for a variable that
\* is not set, else the parsed integer when it is one and within ge / le
ValidateField(field, text) ==
    IF text = Unset THEN [ok |-> TRUE, value |-> field.default]
    ELSE IF text[1] # "int" THEN [ok |-> FALSE, value |-> 0]
    ELSE IF field.ge # <<>> /\ text[2] < field.ge[1] THEN [ok |-> FALSE, value |-> 0]
    ELSE IF field.le # <<>> /\ text[2] > field.le[1] THEN [ok |-> FALSE, value |-> 0]
    ELSE [ok |-> TRUE, value |-> text[2]]

\* settings = Settings(): every field validated on its own; a ValidationError
\* when one of them fails
LoadSettings(env) ==
    /\ settings.pc = "idle"
    /\ LET checked == [name \in DOMAIN ChunkingFields |->
                          ValidateField(ChunkingFields[name], env[name])]
       IN  settings' =
              IF \A name \in DOMAIN ChunkingFields : checked[name].ok
              THEN [pc |-> "loaded", env |-> env,
                    values |-> [name \in DOMAIN ChunkingFields |-> checked[name].value]]
              ELSE [pc |-> "raised", env |-> env, values |-> <<>>]
    /\ UNCHANGED <<storeVars, taskVars, results, streamVars, reply, callerVars,
                   split, upload, session_state>>

NextSettings == \E env \in Environments : LoadSettings(env)

SpecSettings == Init /\ [][NextSettings]_vars

\* ---------------------------------------------------------------- upload_document

\* str.lower() on the characters file names are made of
LowerChar(c) ==
    CASE c = "A" -> "a" [] c = "P" -> "p" [] c = "D" -> "d" [] c = "F" -> "f"
      [] OTHER -> c
Lower(s) == [i \in 1..Len(s) |-> LowerChar(s[i])]

\* 50 * 1024 * 1024
SizeLimit == 50 * 1024 * 1024

\* file.filename: <<>> for None, <<name>> for a str
FileNames ==
    { <<>>, << <<>> >>, << <<"A", ".", "P", "D", "F">> >>,
      << <<"a", ".", "t", "x", "t">> >>, << <<"p", "d", "f">> >> }

\* what file.read() returns: the bytes pdfplumber will be given and their
\* number
FileContents ==
    { [file |-> BadFile(<< <<"a">> >>), size |-> 1],
      [file |-> GoodFile(<< <<"a">> >>), size |-> SizeLimit],
      [file |-> GoodFile(<< <<"a">> >>), size |-> SizeLimit + 1] }

UploadedFiles == [filename : FileNames, content : FileContents]

\* not file.filename or not file.filename.lower().endswith(".pdf")
NotPdfName(filename) ==
    \/ filename = <<>>
    \/ filename[1] = <<>>
    \/ ~EndsWith(Lower(filename[1]), <<".", "p", "d", "f">>)

\* an upload and the response upload_document gave it: the HTTPException or
\* the UploadResponse
UploadAnswer(file, status_code) == [file |-> file, status_code |-> status_code]

\* an upload_document that hands the task over as soon as the name is
\* accepted, before it looks at the size
UploadDocumentSchedulesFirst(file) ==
    /\ Len(upload.responses) < MaxUploads
    /\ IF NotPdfName(file.filename)
       THEN upload' = [upload EXCEPT !.responses = Append(@, UploadAnswer(file, 400))]
       ELSE upload' =
              [responses |-> Append(upload.responses,
                                    UploadAnswer(file, IF file.content.size > SizeLimit
                                                       THEN 400 ELSE 202)),
               background |-> Append(upload.background,
                                     [file_content |-> file.content.file,
                                      filename |-> file.filename[1]])]
    /\ UNCHANGED <<storeVars, taskVars, results, streamVars, reply, callerVars,
                   split, settings, session_state>>

\* upload_document(background_tasks, file, ingestion_service): the two
\* checks, each answered 400, then add_task and the 202 response
UploadDocument(file) ==
    /\ Len(upload.responses) < MaxUploads
    /\ IF NotPdfName(file.filename)
       THEN upload' = [upload EXCEPT !.responses = Append(@, UploadAnswer(file, 400))]
       ELSE IF file.content.size > SizeLimit
       THEN upload' = [upload EXCEPT !.responses = Append(@, UploadAnswer(file, 400))]
       ELSE upload' =
              [responses |-> Append(upload.responses, UploadAnswer(file, 202)),
               background |-> Append(upload.background,
                                     [file_content |-> file.content.file,
                                      filename |-> file.filename[1]])]
    /\ UNCHANGED <<storeVars, taskVars, results, streamVars, reply, callerVars,
                   split, settings, session_state>>

\* the background tasks run after their response was sent, in the order they
\* were added: the next one calls process_document(file_content, filename)
RunBackgroundTask ==
    /\ ncalls < Len(upload.background)
    /\ LET scheduled == upload.background[ncalls + 1] IN
       ProcessDocument([filename |-> scheduled.filename, file |-> scheduled.file_content])

\* the application after its lifespan has initialized the VectorService
InitUpload ==
    /\ pool = "pool"
    /\ embeddings = "embeddings"
    /\ parent_chunks = <<>>
    /\ child_chunks = <<>>
    /\ tx = NoTx
    /\ usedIds = {}
    /\ task = IdleTask
    /\ calls = <<>>
    /\ ncalls = 0
    /\ batches = <<>>
    /\ results = NoResults
    /\ stream = IdleStream
    /\ events = <<>>
    /\ reply = IdleReply
    /\ workers = [w \in Workers |-> IdleWorker]
    /\ held = {}
    /\ split = IdleSplit
    /\ settings = IdleSettings
    /\ upload = IdleUpload
    /\ session_state = IdleSession

NextUpload ==
    \/ \E file \in UploadedFiles : UploadDocument(file)
    \/ RunBackgroundTask
    \/ StoreParentChunk
    \/ StoreParentChunkRaises
    \/ EmbedDocuments
    \/ EmbedDocumentsRaises
    \/ BeginTransaction
    \/ InsertChild
    \/ InsertChildRaises
    \/ CommitChildren
    \/ CommitRaises

SpecUpload == InitUpload /\ [][NextUpload]_vars

\* ---------------------------------------------------------------- RAGService and stream_chat

\* the requests of the stream endpoint: a ChatRequest that passed validation
\* (at least one message, query of 1 to 1000 characters)
Requests ==
    { [messages |-> << [role |-> "user", content |-> <<"q">>] >>,
       query |-> <<"q">>],
      [messages |-> << [role |-> "user", content |-> <<"p">>],
                       [role |-> "assistant", content |-> <<"a">>],
                       [role |-> "user", content |-> <<"q">>] >>,
       query |-> <<"q">>] }

\* the fragments chunk.content of the generation capability can carry
Fragments == { <<>>, <<"a">>, <<"b">>, <<"a", "b">> }

\* what str(e) is for the failures of the generation capability
GenerationErrors == {"GroqError: rate limit", "GroqError: connection reset"}

Fallback ==
    <<"I couldn't find relevant information in the documentation for your question.">>

\* str(n) for the small counts of the model
Str(n) == <<"0", "1", "2", "3", "4", "5", "6", "7", "8", "9">>[n + 1]

\* the event dicts event_generator yields (the traceback in an error event's
\* details is left out)
ChunkEvent(text_chunk, chunk_count) ==
    [event |-> "message", type |-> "chunk", content |-> text_chunk,
     sources |-> <<>>, message |-> "", id |-> Str(chunk_count)]
SourcesEvent(sources) ==
    [event |-> "sources", type |-> "sources", content |-> <<>>,
     sources |-> sources, message |-> "", id |-> "sources"]
DoneEvent ==
    [event |-> "done", type |-> "done", content |-> <<>>,
     sources |-> <<>>, message |-> "", id |-> "done"]
ErrorEvent(message) ==
    [event |-> "error", type |-> "error", content |-> <<>>,
     sources |-> <<>>, message |-> message, id |-> "error"]

\* source_info of generate_stream for one retrieved chunk
SourceInfo(chunk) ==
    [document_name |-> chunk.document_name,
     page_number |-> chunk.page_number,
     section_title |-> chunk.section_title,
     similarity |-> chunk.similarity]

\* context_text of generate_stream for one retrieved chunk
ContextText(chunk) ==
    IF chunk.section_title # None
    THEN <<"[", chunk.section_title, "]", "\n">> \o chunk.content
    ELSE chunk.content

\* the chat history handed to the prompt: messages[:-1], user and assistant
\* turns only
LangchainMessages(messages) ==
    SelectSeq(SubSeq(messages, 1, Len(messages) - 1),
              LAMBDA msg : msg.role \in {"user", "assistant"})

\* the second component of every tuple generate_stream yields
YieldedSources(sources) == <<>>

\* event_generator's handling of one tuple generate_stream yields: a message
\* event for a non-empty text_chunk, and sources kept when chunk_sources is
\* non-empty
OnTuple(frame, text_chunk, chunk_sources) ==
    [frame EXCEPT
        !.chunk_count = IF text_chunk # <<>> THEN @ + 1 ELSE @,
        !.ep_sources = IF chunk_sources # <<>> THEN chunk_sources ELSE @]

EventsOnTuple(frame, text_chunk) ==
    IF text_chunk # <<>>
    THEN Append(events, ChunkEvent(text_chunk, frame.chunk_count + 1))
    ELSE events

\* stream_chat(request): event_generator starts and generate_stream awaits
\* retrieve_parent_chunks(query)
StreamChat(request) ==
    /\ stream.pc = "idle"
    /\ stream' = [IdleStream EXCEPT !.pc = "retrieve",
                                    !.messages = request.messages,
                                    !.query = request.query,
                                    !.invoked = <<"retrieve_parent_chunks">>]
    /\ events' = <<>>
    /\ UNCHANGED <<storeVars, taskVars, results, reply, callerVars, split, edgeVars>>

\* a generate_stream without the test on retrieved_chunks: it builds the
\* (empty) context and starts the chain whatever retrieval returned
RetrievedUnguarded ==
    /\ stream.pc = "retrieve"
    /\ embeddings # None
    /\ \E query_embedding \in Angles :
        LET retrieved_chunks == FetchRows(parent_chunks, child_chunks,
                                          query_embedding, EffectiveTopK(<<>>))
        IN  stream' =
              [stream EXCEPT
                  !.pc = "astream",
                  !.retrieved = retrieved_chunks,
                  !.sources = [i \in 1..Len(retrieved_chunks) |->
                                  SourceInfo(retrieved_chunks[i])],
                  !.context = Join([i \in 1..Len(retrieved_chunks) |->
                                       ContextText(retrieved_chunks[i])],
                                   <<"\n", "\n", "-", "-", "-", "\n", "\n">>),
                  !.langchain_messages = LangchainMessages(stream.messages),
                  !.invoked = Append(@, "astream")]
    /\ UNCHANGED <<events, storeVars, taskVars, results, reply, callerVars, split, edgeVars>>

\* retrieve_parent_chunks returns: with no rows generate_stream yields the
\* fallback text and event_generator sends it; with rows generate_stream
\* builds sources, context and history, starts chain.astream and awaits the
\* first fragment
Retrieved ==
    /\ stream.pc = "retrieve"
    /\ embeddings # None
    /\ \E query_embedding \in Angles :
        LET retrieved_chunks == FetchRows(parent_chunks, child_chunks,
                                          query_embedding, EffectiveTopK(<<>>))
            got == [stream EXCEPT !.retrieved = retrieved_chunks]
        IN  IF retrieved_chunks = <<>>
            THEN /\ stream' = [OnTuple(got, Fallback, <<>>) EXCEPT !.pc = "fallback"]
                 /\ events' = EventsOnTuple(got, Fallback)
            ELSE /\ stream' =
                      [got EXCEPT
                          !.pc = "astream",
                          !.sources = [i \in 1..Len(retrieved_chunks) |->
                                          SourceInfo(retrieved_chunks[i])],
                          !.context = Join([i \in 1..Len(retrieved_chunks) |->
                                               ContextText(retrieved_chunks[i])],
                                           <<"\n", "\n", "-", "-", "-", "\n", "\n">>),
                          !.langchain_messages = LangchainMessages(stream.messages),
                          !.invoked = Append(@, "astream")]
                 /\ UNCHANGED events
    /\ UNCHANGED <<storeVars, taskVars, results, reply, callerVars, split, edgeVars>>

\* an except branch that reports a fixed text instead of str(e)
ExceptGeneric(message) ==
    /\ events' = Append(events, ErrorEvent("Internal server error"))
    /\ stream' = [stream EXCEPT !.pc = "error_sent", !.raised = message]

\* the except branch of event_generator reached with exception e (raised
\* keeps str(e)): its first yield, the error event
Except(message) ==
    /\ events' = Append(events, ErrorEvent(message))
    /\ stream' = [stream EXCEPT !.pc = "error_sent", !.raised = message]

\* retrieve_parent_chunks raises inside generate_stream
RetrievalRaises ==
    /\ stream.pc = "retrieve"
    /\ \E error \in IF embeddings = None THEN {EmbeddingsNotInitialized}
                    ELSE {CapabilityError, StoreError} : Except(error)
    /\ UNCHANGED <<storeVars, taskVars, results, reply, callerVars, split, edgeVars>>

\* a generate_stream that skips a fragment found anywhere in the buffer
\* (new_text in buffer), not only at its end
FragmentSkipsContained(new_text) ==
    /\ stream.pc = "astream"
    /\ stream.produced < MaxFragments
    /\ LET seen == [stream EXCEPT !.produced = @ + 1, !.answer = @ \o new_text] IN
       IF new_text = <<>> \/ Contains(stream.buffer, new_text)
       THEN /\ stream' = seen
            /\ UNCHANGED events
       ELSE /\ stream' = OnTuple([seen EXCEPT !.buffer = @ \o new_text],
                                 new_text, YieldedSources(stream.sources))
            /\ events' = EventsOnTuple(seen, new_text)
    /\ UNCHANGED <<storeVars, taskVars, results, reply, callerVars, split, edgeVars>>

\* chain.astream produces one more chunk: generate_stream skips it when it is
\* empty or the buffer already ends with it, else buffers and yields it, and
\* event_generator sends the message event
Fragment(new_text) ==
    /\ stream.pc = "astream"
    /\ stream.produced < MaxFragments
    /\ LET seen == [stream EXCEPT !.produced = @ + 1, !.answer = @ \o new_text] IN
       IF new_text = <<>> \/ EndsWith(stream.buffer, new_text)
       THEN /\ stream' = seen
            /\ UNCHANGED events
       ELSE /\ stream' = OnTuple([seen EXCEPT !.buffer = @ \o new_text],
                                 new_text, YieldedSources(stream.sources))
            /\ events' = EventsOnTuple(seen, new_text)
    /\ UNCHANGED <<storeVars, taskVars, results, reply, callerVars, split, edgeVars>>

\* chain.astream raises
GenerationRaises ==
    /\ stream.pc = "astream"
    /\ \E error \in GenerationErrors : Except(error)
    /\ UNCHANGED <<storeVars, taskVars, results, reply, callerVars, split, edgeVars>>

\* generate_stream is exhausted (after the fallback, or when chain.astream
\* ends): event_generator leaves its loop and yields the sources event when
\* it has sources, else the done event
LoopEnds ==
    /\ stream.pc \in {"fallback", "astream"}
    /\ IF stream.ep_sources # <<>>
       THEN /\ events' = Append(events, SourcesEvent(stream.ep_sources))
            /\ stream' = [stream EXCEPT !.pc = "sources_sent"]
       ELSE /\ events' = Append(events, DoneEvent)
            /\ stream' = [stream EXCEPT !.pc = "closed"]
    /\ UNCHANGED <<storeVars, taskVars, results, reply, callerVars, split, edgeVars>>

\* an except branch that ends after its error event, with no done event
YieldDoneOmitted ==
    /\ stream.pc \in {"sources_sent", "error_sent"}
    /\ stream' = [stream EXCEPT !.pc = "closed"]
    /\ UNCHANGED <<events, storeVars, taskVars, results, reply, callerVars, split, edgeVars>>

\* the done event that follows the sources event or the error event
YieldDone ==
    /\ stream.pc \in {"sources_sent", "error_sent"}
    /\ events' = Append(events, DoneEvent)
    /\ stream' = [stream EXCEPT !.pc = "closed"]
    /\ UNCHANGED <<storeVars, taskVars, results, reply, callerVars, split, edgeVars>>

\* ---------------------------------------------------------------- chat

\* the response.content chain.ainvoke can answer
Responses == { <<"a">>, <<"a", "b">> }

\* chat(request): generate awaits retrieve_parent_chunks(query).  Requests
\* are served one after the other, the chat request once the stream has
\* closed: the two calls share nothing but the store, which neither writes.
Chat(request) ==
    /\ reply.pc = "idle"
    /\ stream.pc = "closed"
    /\ reply' = [IdleReply EXCEPT !.pc = "retrieve",
                                  !.messages = request.messages,
                                  !.query = request.query,
                                  !.invoked = <<"retrieve_parent_chunks">>]
    /\ UNCHANGED <<storeVars, taskVars, results, streamVars, callerVars, split, edgeVars>>

\* retrieve_parent_chunks returns to generate: with no rows generate returns
\* the fallback text and no sources; with rows it builds sources, context and
\* history and awaits chain.ainvoke
GenerateRetrieved ==
    /\ reply.pc = "retrieve"
    /\ embeddings # None
    /\ \E query_embedding \in Angles :
        LET retrieved_chunks == FetchRows(parent_chunks, child_chunks,
                                          query_embedding, EffectiveTopK(<<>>))
            got == [reply EXCEPT !.retrieved = retrieved_chunks]
        IN  IF retrieved_chunks = <<>>
            THEN reply' = [got EXCEPT !.pc = "returned",
                                      !.response = [response |-> Fallback,
                                                    sources |-> <<>>]]
            ELSE reply' =
                   [got EXCEPT
                       !.pc = "ainvoke",
                       !.sources = [i \in 1..Len(retrieved_chunks) |->
                                       SourceInfo(retrieved_chunks[i])],
                       !.context = Join([i \in 1..Len(retrieved_chunks) |->
                                            ContextText(retrieved_chunks[i])],
                                        <<"\n", "\n", "-", "-", "-", "\n", "\n">>),
                       !.langchain_messages = LangchainMessages(reply.messages),
                       !.invoked = Append(@, "ainvoke")]
    /\ UNCHANGED <<storeVars, taskVars, results, streamVars, callerVars, split, edgeVars>>

\* a generate that catches the failure of retrieval and asks the generation
\* capability with an empty context
GenerateRetrievalSwallowed ==
    /\ reply.pc = "retrieve"
    /\ \E error \in IF embeddings = None THEN {EmbeddingsNotInitialized}
                    ELSE {CapabilityError, StoreError} :
          reply' = [reply EXCEPT !.pc = "ainvoke", !.raised = error,
                                 !.invoked = Append(@, "ainvoke")]
    /\ UNCHANGED <<storeVars, taskVars, results, streamVars, callerVars, split, edgeVars>>

\* retrieve_parent_chunks raises inside generate: the exception leaves
\* generate and the endpoint
GenerateRetrievalRaises ==
    /\ reply.pc = "retrieve"
    /\ \E error \in IF embeddings = None THEN {EmbeddingsNotInitialized}
                    ELSE {CapabilityError, StoreError} :
          reply' = [reply EXCEPT !.pc = "raised", !.raised = error]
    /\ UNCHANGED <<storeVars, taskVars, results, streamVars, callerVars, split, edgeVars>>

\* chain.ainvoke answers: generate returns (response.content, sources)
Ainvoke(content) ==
    /\ reply.pc = "ainvoke"
    /\ reply' = [reply EXCEPT !.pc = "returned",
                              !.response = [response |-> content,
                                            sources |-> reply.sources]]
    /\ UNCHANGED <<storeVars, taskVars, results, streamVars, callerVars, split, edgeVars>>

\* chain.ainvoke raises
AinvokeRaises ==
    /\ reply.pc = "ainvoke"
    /\ \E error \in GenerationErrors :
          reply' = [reply EXCEPT !.pc = "raised", !.raised = error]
    /\ UNCHANGED <<storeVars, taskVars, results, streamVars, callerVars, split, edgeVars>>

\* ---------------------------------------------------------------- stream specification

\* the store after process_document of a.pdf drew the ids 1 and 2 and the
\* embedding capability answered e1, e2 for the first parent's children and
\* e3 for the second's
SeededParents ==
    [pid \in {1, 2} |->
        [document_name |-> "a.pdf",
         content |-> IF pid = 1 THEN <<"a", "a", "a">> ELSE <<"a", "a">>,
         page_number |-> None,
         section_title |-> None,
         metadata |-> <<[chunk_index |-> pid - 1, total_chunks |-> 2]>>]]

SeededChildren(e1, e2, e3) ==
    << [parent_id |-> 1, content |-> <<"a", "a">>, embedding |-> e1,
        metadata |-> [parent_index |-> 0], batch |-> 1],
       [parent_id |-> 1, content |-> <<"a", "a">>, embedding |-> e2,
        metadata |-> [parent_index |-> 0], batch |-> 1],
       [parent_id |-> 2, content |-> <<"a", "a">>, embedding |-> e3,
        metadata |-> [parent_index |-> 1], batch |-> 2] >>

\* the application serving chat requests: the service initialized or not,
\* the store empty or holding an ingested document
InitStream ==
    /\ \/ /\ pool = None /\ embeddings = None
          /\ parent_chunks = <<>> /\ child_chunks = <<>>
       \/ /\ pool = "pool" /\ embeddings = "embeddings"
          /\ \/ parent_chunks = <<>> /\ child_chunks = <<>>
             \/ /\ parent_chunks = SeededParents
                /\ \E e1 \in Angles, e3 \in Angles :
                      child_chunks = SeededChildren(e1, 0, e3)
    /\ tx = NoTx
    /\ usedIds = {pid \in Ids : pid \in DOMAIN parent_chunks}
    /\ task = IdleTask
    /\ calls = <<>>
    /\ ncalls = 0
    /\ batches = <<>>
    /\ results = NoResults
    /\ stream = IdleStream
    /\ events = <<>>
    /\ reply = IdleReply
    /\ workers = [w \in Workers |-> IdleWorker]
    /\ held = {}
    /\ split = IdleSplit
    /\ settings = IdleSettings
    /\ upload = IdleUpload
    /\ session_state = IdleSession

NextStream ==
    \/ \E request \in Requests : StreamChat(request)
    \/ Retrieved
    \/ RetrievalRaises
    \/ \E new_text \in Fragments : Fragment(new_text)
    \/ GenerationRaises
    \/ LoopEnds
    \/ YieldDone
    \/ \E request \in Requests : Chat(request)
    \/ GenerateRetrieved
    \/ GenerateRetrievalRaises
    \/ \E content \in Responses : Ainvoke(content)
    \/ AinvokeRaises

SpecStream == InitStream /\ [][NextStream]_vars

\* ---------------------------------------------------------------- the Streamlit UI

\* max_length of ChatRequest.query
query_max_length == 1000

\* what st.chat_input returns when the user sends something: a non-empty
\* text, of any length
Prompts ==
    { <<"q">>, <<"p">>, [i \in 1..(query_max_length + 1) |-> "q"] }

\* ChatRequest: messages with min_length=1, query with min_length=1 and
\* max_length=1000
ChatRequestValid(request) ==
    /\ Len(request.messages) >= 1
    /\ Len(request.query) >= 1
    /\ Len(request.query) <= query_max_length

\* the chat input handler up to its POST: the prompt appended to the
\* session's messages, and the request built from messages[:-1] and the
\* prompt
ChatInput(prompt) ==
    /\ session_state.pc = "idle"
    /\ session_state.turns < MaxTurns
    /\ LET messages == Append(session_state.messages,
                               [role |-> "user", content |-> prompt])
       IN  session_state' =
              [session_state EXCEPT
                  !.pc = "post",
                  !.turns = @ + 1,
                  !.messages = messages,
                  !.prompt = prompt,
                  !.chat_request = [messages |-> SubSeq(messages, 1, Len(messages) - 1),
                                    query |-> prompt],
                  !.status_code = 0]
    /\ UNCHANGED <<storeVars, taskVars, results, streamVars, reply, callerVars,
                   split, settings, upload>>

\* the stream endpoint refuses a body that is no ChatRequest: 422, and
\* stream_chat does not run
RejectChatRequest ==
    /\ session_state.pc = "post"
    /\ ~ChatRequestValid(session_state.chat_request)
    /\ session_state' = [session_state EXCEPT !.pc = "received", !.status_code = 422]
    /\ UNCHANGED <<storeVars, taskVars, results, streamVars, reply, callerVars,
                   split, settings, upload>>

\* the stream endpoint accepts the body: stream_chat(request) starts
\* event_generator, which awaits retrieve_parent_chunks(query)
AcceptChatRequest ==
    /\ session_state.pc = "post"
    /\ ChatRequestValid(session_state.chat_request)
    /\ stream.pc \in {"idle", "closed"}
    /\ stream' = [IdleStream EXCEPT !.pc = "retrieve",
                                    !.messages = session_state.chat_request.messages,
                                    !.query = session_state.chat_request.query,
                                    !.invoked = <<"retrieve_parent_chunks">>]
    /\ events' = <<>>
    /\ session_state' = [session_state EXCEPT !.pc = "streaming", !.status_code = 200]
    /\ UNCHANGED <<storeVars, taskVars, results, reply, callerVars,
                   split, settings, upload>>

\* full_response: the contents of the chunk events read from the stream, or
\* nothing when the status code is not 200
FullResponse ==
    IF session_state.status_code # 200 THEN <<>>
    ELSE LET chunks == SelectSeq(events, LAMBDA e : e.type = "chunk")
         IN  Concat([i \in 1..Len(chunks) |-> chunks[i].content])

\* the chat input handler after the response has ended: the assistant's
\* message, full_response, appended to the session's messages
AppendAssistant ==
    /\ \/ session_state.pc = "received"
       \/ session_state.pc = "streaming" /\ stream.pc = "closed"
    /\ session_state' =
          [session_state EXCEPT
              !.pc = "idle",
              !.messages = Append(@, [role |-> "assistant", content |-> FullResponse])]
    /\ UNCHANGED <<storeVars, taskVars, results, streamVars, reply, callerVars,
                   split, settings, upload>>

\* the application serving one Streamlit session over an ingested document
InitUI ==
    /\ pool = "pool"
    /\ embeddings = "embeddings"
    /\ parent_chunks = SeededParents
    /\ child_chunks = SeededChildren(0, 0, 0)
    /\ tx = NoTx
    /\ usedIds = {pid \in Ids : pid \in DOMAIN parent_chunks}
    /\ task = IdleTask
    /\ calls = <<>>
    /\ ncalls = 0
    /\ batches = <<>>
    /\ results = NoResults
    /\ stream = IdleStream
    /\ events = <<>>
    /\ reply = IdleReply
    /\ workers = [w \in Workers |-> IdleWorker]
    /\ held = {}
    /\ split = IdleSplit
    /\ settings = IdleSettings
    /\ upload = IdleUpload
    /\ session_state = IdleSession

NextUI ==
    \/ \E prompt \in Prompts : ChatInput(prompt)
    \/ RejectChatRequest
    \/ AcceptChatRequest
    \/ Retrieved
    \/ RetrievalRaises
    \/ \E new_text \in Fragments : Fragment(new_text)
    \/ GenerationRaises
    \/ LoopEnds
    \/ YieldDone
    \/ AppendAssistant

SpecUI == InitUI /\ [][NextUI]_vars

\* ---------------------------------------------------------------- claims: the stream

\* the indexes of the events of one kind
EventsOf(kind) == {i \in 1..Len(events) : events[i].event = kind}

\* C1: every run of event_generator (generation succeeds, retrieval is empty,
\* retrieval or generation raises) emits exactly one done event, as its last
\* event: no event ever follows a done event, and a closed stream ends in one.
C1_ExactlyOneDoneLast ==
    /\ \A i \in EventsOf("done") : i = Len(events) /\ stream.pc = "closed"
    /\ stream.pc = "closed" =>
          /\ events # <<>>
          /\ events[Len(events)] = DoneEvent
          /\ Cardinality(EventsOf("done")) = 1

\* a stream closed after generation raised mid-way, deltas already sent
C1_Witness ==
    /\ stream.pc = "closed"
    /\ EventsOf("error") # {}
    /\ EventsOf("message") # {}
    /\ stream.retrieved # <<>>

\* the deltas sent so far are the message events 1 .. n, numbered in order,
\* and their contents concatenate to the buffer
DeltasAre(n) ==
    /\ \A j \in 1..n : /\ events[j].event = "message"
                       /\ events[j].content # <<>>
                       /\ events[j].id = Str(j)
    /\ stream.retrieved # <<>> =>
          Concat([j \in 1..n |-> events[j].content]) = stream.buffer

\* C2: when generation (or retrieval, n = 0) raises after n deltas were sent,
\* the events are exactly those n deltas, then one error event carrying
\* str(e), then the done event; nothing else follows the error event, and no
\* step ever retracts or rewrites an event already sent.
C2_ErrorAfterDeltas ==
    /\ [](\A i \in EventsOf("error") :
            /\ DeltasAre(i - 1)
            /\ stream.chunk_count = i - 1
            /\ events[i] = ErrorEvent(stream.raised)
            /\ stream.raised # ""
            /\ Len(events) <= i + 1
            /\ Len(events) = i + 1 => events[i + 1] = DoneEvent
            /\ stream.pc = "closed" => Len(events) = i + 1)
    /\ [][/\ Len(events') >= Len(events)
          /\ SubSeq(events', 1, Len(events)) = events]_vars

\* generation raised after two deltas and the stream closed
C2_Witness ==
    /\ stream.pc = "closed"
    /\ stream.raised \in GenerationErrors
    /\ Len(events) = 4
    /\ events[1].event = "message" /\ events[2].event = "message"
    /\ events[3].event = "error" /\ events[4].event = "done"

\* C3: whenever retrieval returned at least one chunk and generation completed
\* without error, the closed stream holds exactly one sources event, before
\* the done event, listing one citation per retrieved chunk in rank order.
C3_SourcesEventSent ==
    (/\ stream.pc = "closed"
     /\ stream.retrieved # <<>>
     /\ EventsOf("error") = {})
    => /\ Cardinality(EventsOf("sources")) = 1
       /\ \A i \in EventsOf("sources") :
             /\ i < Len(events)
             /\ events[i].sources =
                   [n \in 1..Len(stream.retrieved) |-> SourceInfo(stream.retrieved[n])]

\* ---------------------------------------------------------------- claims: retrieval

\* the parents that have at least one child in the store
ParentsWithChildren ==
    {pid \in DOMAIN parent_chunks : ChildrenOf(child_chunks, pid) # {}}

\* 1 minus the cosine distance of the closest child of pid to the last query
BestSimilarity(pid) ==
    100 - BestDistance(child_chunks, pid, results.query_embedding)

\* C4: the rows retrieve_parent_chunks returns carry, as similarity, 1 minus
\* the cosine distance of the parent's closest child, and are in
\* non-increasing order of it.
C4_RankedBySimilarity ==
    results.status = "ok" =>
        /\ \A i \in 1..Len(results.rows) :
              results.rows[i].similarity = BestSimilarity(results.rows[i].id)
        /\ \A i \in 1..(Len(results.rows) - 1) :
              results.rows[i].similarity >= results.rows[i + 1].similarity

\* C5: retrieve_parent_chunks returns min(k, parents with a child) rows, and
\* no parent it leaves out is strictly closer than one it returns.
C5_KClosest ==
    results.status = "ok" =>
        LET returned == {results.rows[i].id : i \in 1..Len(results.rows)} IN
        /\ Len(results.rows) = Min(results.top_k, Cardinality(ParentsWithChildren))
        /\ \A out \in ParentsWithChildren \ returned :
              \A i \in 1..Len(results.rows) :
                 BestSimilarity(out) <= results.rows[i].similarity

\* C6: no two rows retrieve_parent_chunks returns share a parent id, whatever
\* the store holds and whatever k is.
C6_DistinctParents ==
    results.status = "ok" =>
        \A i, j \in 1..Len(results.rows) :
            results.rows[i].id = results.rows[j].id => i = j

\* a query answered with two parents, one of which has two children
C6_Witness ==
    /\ results.status = "ok"
    /\ Len(results.rows) = 2
    /\ \E pid \in ParentsWithChildren : Cardinality(ChildrenOf(child_chunks, pid)) = 2

\* ---------------------------------------------------------------- claims: ingestion

\* the committed rows the store shows of the b-th store_child_chunks call
VisibleOf(b) == {i \in 1..Len(child_chunks) : child_chunks[i].batch = b}

\* C7: store_child_chunks is atomic per parent: in every state any other
\* operation can observe, either none or all of a call's children are in the
\* store, none while the call is running or after it failed; and the step in
\* which a call fails leaves the stored children as they were.
C7_ChildBatchAtomic ==
    /\ [](\A b \in 1..Len(batches) :
            /\ Cardinality(VisibleOf(b)) \in {0, batches[b].size}
            /\ batches[b].state \in {"pending", "failed"} => VisibleOf(b) = {})
    /\ [][(/\ batches # <<>>
           /\ Len(batches') = Len(batches)
           /\ batches[Len(batches)].state = "pending"
           /\ batches'[Len(batches)].state = "failed")
          => child_chunks' = child_chunks]_vars

\* a batch of two children failed after its first INSERT
C7_Witness ==
    /\ task.pc = "raised"
    /\ Len(task.children) = 2
    /\ task.inserted = 1
    /\ batches # <<>> /\ batches[Len(batches)].state = "failed"

\* C8: within one process_document call, store_child_chunks for parent N is
\* issued only right after store_parent_chunk for N returned, with the id
\* that call stored, and at that moment the parent's row is in the store.
C8_ChildrenAfterParent ==
    /\ [](\A i \in 1..Len(calls) :
            calls[i].op = "store_child_chunks" =>
                /\ i > 1
                /\ calls[i - 1].op = "store_parent_chunk"
                /\ calls[i - 1].outcome = "ok"
                /\ calls[i - 1].parent_id = calls[i].parent_id
                /\ calls[i - 1].idx = calls[i].idx)
    /\ [][(/\ Len(calls') > Len(calls)
           /\ calls'[Len(calls')].op = "store_child_chunks")
          => /\ calls'[Len(calls')].parent_id \in DOMAIN parent_chunks'
             /\ parent_chunks'[calls'[Len(calls')].parent_id].content
                    = task.parents[calls'[Len(calls')].idx + 1]]_vars

\* the children of the second parent are being stored
C8_Witness ==
    /\ task.pc = "insert"
    /\ task.idx = 1
    /\ Len(calls) = 4
    /\ calls[4].op = "store_child_chunks"

\* C9: when store_parent_chunk or store_child_chunks fails for a parent,
\* process_document raises that error and returns no result, makes no store
\* call for a later parent, and the failing step leaves the parents and
\* children the store holds untouched.
C9_FailurePropagates ==
    /\ [](\A i \in 1..Len(calls) :
            calls[i].outcome = "raised" =>
                /\ i = Len(calls)
                /\ task.pc = "raised"
                /\ task.result = None
                /\ task.error \in {PoolIsNone, StoreError, ForeignKeyViolation,
                                   CapabilityError, EmbeddingsNotInitialized})
    /\ [](task.pc = "done" => \A i \in 1..Len(calls) : calls[i].outcome = "ok")
    /\ [][(task.pc # "raised" /\ task'.pc = "raised")
          => /\ child_chunks' = child_chunks
             /\ \A pid \in DOMAIN parent_chunks :
                   /\ pid \in DOMAIN parent_chunks'
                   /\ parent_chunks'[pid] = parent_chunks[pid]]_vars

\* the second parent's child batch failed while the first parent and its
\* children are in the store
C9_Witness ==
    /\ task.pc = "raised"
    /\ task.idx = 1
    /\ Len(calls) = 4
    /\ calls[4].outcome = "raised"
    /\ calls[1].parent_id \in ParentsWithChildren

\* C10: when text extraction fails on a malformed document, process_document
\* raises the extraction ValueError and makes no store call: the step leaves
\* the store as it was.
C10_ExtractionFailureNoWrites ==
    /\ []((task.pc # "idle" /\ task.file_content.malformed) =>
            /\ task.pc = "raised"
            /\ task.error = ExtractionError
            /\ task.result = None
            /\ calls = <<>>)
    /\ [][(ncalls' = ncalls + 1 /\ task'.file_content.malformed)
          => UNCHANGED <<parent_chunks, child_chunks, tx>>]_vars

\* process_document of the malformed upload has raised
C10_Witness ==
    /\ task.pc = "raised"
    /\ task.error = ExtractionError
    /\ task.file_content.malformed
    /\ pool # None

\* C11: when a well-formed document yields no text on any page,
\* process_document fails with the extraction error: it splits nothing and
\* reports no result with status "success".
C11_EmptyExtractionFails ==
    (/\ task.pc # "idle"
     /\ ~task.file_content.malformed
     /\ extract_text_from_pdf(task.file_content).text = <<>>)
    => /\ task.pc = "raised"
       /\ task.error = ExtractionError
       /\ task.result = None

\* the sizes of the last n store_child_chunks calls, summed
RECURSIVE LastBatchSizes(_)
LastBatchSizes(n) ==
    IF n = 0 THEN 0
    ELSE batches[Len(batches) - n + 1].size + LastBatchSizes(n - 1)

\* C18: a process_document that returns reports status "success",
\* parent_chunks = the number of chunks the parent splitter yields on the
\* extracted text = the number of its store_parent_chunk calls = the number
\* of its store_child_chunks calls, and child_chunks = the sum of the numbers
\* of child texts passed to store_child_chunks; the calls go parent by
\* parent in document order, and each parent is stored with its text and
\* chunk_index idx of total_chunks n.
C18_CountsReported ==
    /\ [](task.pc = "done" =>
            LET parents == parent_splitter(
                               extract_text_from_pdf(task.file_content).text)
                n == Len(parents)
            IN  /\ task.result.status = "success"
                /\ task.result.filename = task.filename
                /\ task.result.parent_chunks = n
                /\ Len(calls) = 2 * n
                /\ \A i \in 1..n :
                      /\ calls[2 * i - 1].op = "store_parent_chunk"
                      /\ calls[2 * i - 1].idx = i - 1
                      /\ calls[2 * i].op = "store_child_chunks"
                      /\ calls[2 * i].idx = i - 1
                /\ Len(batches) >= n
                /\ task.result.child_chunks = LastBatchSizes(n)
                /\ task.result.child_chunks =
                      SumLen([i \in 1..n |-> child_splitter(parents[i])]))
    /\ [][(/\ Len(calls') = Len(calls) + 2
           /\ calls'[Len(calls') - 1].op = "store_parent_chunk"
           /\ calls'[Len(calls') - 1].outcome = "ok")
          => LET idx == calls'[Len(calls') - 1].idx
                 pid == calls'[Len(calls') - 1].parent_id
                 parents == parent_splitter(
                                extract_text_from_pdf(task.file_content).text)
             IN  /\ idx = Len(calls) \div 2
                 /\ parent_chunks'[pid].document_name = task.filename
                 /\ parent_chunks'[pid].content = parents[idx + 1]
                 /\ parent_chunks'[pid].metadata =
                       <<[chunk_index |-> idx, total_chunks |-> Len(parents)]>>
                 /\ batches'[Len(batches')].size =
                       Len(child_splitter(parents[idx + 1]))]_vars

\* process_document of a.pdf returned: two parents, three children
C18_Witness ==
    /\ task.pc = "done"
    /\ task.filename = "a.pdf"
    /\ task.result.parent_chunks = 2
    /\ task.result.child_chunks = 3
    /\ Len(calls) = 4

\* C25: in every store state, whatever the interleaving of process_document
\* and delete_document (a delete of the document between a parent's write
\* and its child batch included), the parent_id of every stored child is the
\* id of a parent the store holds.
C25_ChildHasParent ==
    \A i \in 1..Len(child_chunks) : child_chunks[i].parent_id \in DOMAIN parent_chunks

\* the document was deleted between the write of a parent and the INSERT of
\* its first child, which the foreign key refused, while the children of an
\* earlier parent had been stored and went with the delete
C25_Witness ==
    /\ task.pc = "raised"
    /\ task.error = ForeignKeyViolation
    /\ task.idx = 1
    /\ batches[1].state = "committed"
    /\ task.parent_id \notin DOMAIN parent_chunks
    /\ child_chunks = <<>>

\* C26: a retrieve_parent_chunks that runs while an ingestion is under way
\* returns no parent whose child batch has not committed: every parent in
\* its rows has committed children, and a parent store_parent_chunk wrote
\* whose store_child_chunks call is pending or has failed is in none.
C26_OnlyCommittedParentsRetrieved ==
    results.status = "ok" =>
        \A n \in 1..Len(results.rows) :
            LET pid == results.rows[n].id IN
            /\ \E i \in 1..Len(child_chunks) :
                  /\ child_chunks[i].parent_id = pid
                  /\ batches[child_chunks[i].batch].state = "committed"
            /\ \A c \in 1..Len(calls) :
                  (calls[c].op = "store_child_chunks" /\ calls[c].parent_id = pid)
                      => calls[c].outcome = "ok"
            /\ task.pc \in {"store_parent", "embed", "acquire", "insert"}
                  => task.parent_id # pid

\* a retrieval with room for five rows ran while the children of the second
\* parent were being inserted: it returned the first parent only
C26_Witness ==
    /\ results.status = "ok"
    /\ results.top_k = 5
    /\ task.pc = "insert"
    /\ task.idx = 1
    /\ task.inserted >= 1
    /\ task.parent_id \in DOMAIN parent_chunks
    /\ Len(results.rows) = 1
    /\ results.rows[1].id # task.parent_id

\* C21: every child chunk ingestion has stored is strictly shorter than the
\* parent chunk it was produced from, a parent no longer than the child
\* chunk size included.
C21_ChildShorterThanParent ==
    \A i \in 1..Len(child_chunks) :
        child_chunks[i].parent_id \in DOMAIN parent_chunks =>
            Len(child_chunks[i].content)
                < Len(parent_chunks[child_chunks[i].parent_id].content)

\* ---------------------------------------------------------------- claims: Settings

\* C22: every configuration Settings accepts has child_chunk_size below
\* parent_chunk_size, with parent_chunk_size at least 100 and child_chunk_size
\* between 50 and 500.
C22_ChildSizeBelowParentSize ==
    settings.pc = "loaded" =>
        /\ settings.values.parent_chunk_size >= 100
        /\ settings.values.child_chunk_size >= 50
        /\ settings.values.child_chunk_size <= 500
        /\ settings.values.child_chunk_size < settings.values.parent_chunk_size

\* ---------------------------------------------------------------- claims: the upload endpoint

\* the uploads answered with one status
Answered(status_code) ==
    {i \in 1..Len(upload.responses) : upload.responses[i].status_code = status_code}

\* C23: an upload whose file name is missing or does not end in .pdf, or
\* whose content is larger than 50 MB, is answered 400 and has no side
\* effect: no background task is added and the store is not touched; a
\* background task is added exactly once per upload answered 202, and
\* process_document runs for those tasks only.
C23_RejectedUploadNoSideEffect ==
    /\ []( /\ Len(upload.background) = Cardinality(Answered(202))
           /\ Answered(202) \cup Answered(400) = 1..Len(upload.responses)
           /\ ncalls <= Len(upload.background)
           /\ ncalls = 0 => parent_chunks = <<>> /\ child_chunks = <<>>
           /\ \A i \in 1..Len(upload.responses) :
                 LET file == upload.responses[i].file IN
                 upload.responses[i].status_code = 400
                    <=> \/ file.filename = <<>>
                        \/ ~EndsWith(Lower(Concat(file.filename)),
                                     <<".", "p", "d", "f">>)
                        \/ file.content.size > 50 * 1024 * 1024 )
    /\ [][ Len(upload.responses') = Len(upload.responses) + 1 =>
             LET answer == upload.responses'[Len(upload.responses')] IN
             /\ UNCHANGED <<storeVars, taskVars>>
             /\ answer.status_code = 400 => upload.background' = upload.background
             /\ answer.status_code = 202 =>
                   upload.background' =
                      Append(upload.background,
                             [file_content |-> answer.file.content.file,
                              filename |-> answer.file.filename[1]]) ]_vars

\* a PDF of more than 50 MB was answered 400 after another upload was
\* accepted, and one task is scheduled
C23_Witness ==
    /\ Len(upload.responses) = 2
    /\ upload.responses[1].status_code = 202
    /\ upload.responses[2].status_code = 400
    /\ upload.responses[2].file.filename = << <<"A", ".", "P", "D", "F">> >>
    /\ upload.responses[2].file.content.size > SizeLimit
    /\ Len(upload.background) = 1
    /\ ncalls = 1

\* ---------------------------------------------------------------- claims: the splitters

\* C20: every chunk split_text_recursive, the parent splitter and the child
\* splitter return is at most chunk_size long (the chunk_size in force: the
\* argument, or the configured size), whatever the text, a text with no
\* separator at all included.
C20_ChunkWithinSize ==
    split.pc = "returned" =>
        /\ split.limit = CASE split.op = "parent_splitter" -> parent_chunk_size
                            [] split.op = "child_splitter" -> child_chunk_size
                            [] OTHER -> IF split.chunk_size = <<>>
                                       THEN child_chunk_size
                                       ELSE split.chunk_size[1]
        /\ \A i \in 1..Len(split.chunks) : Len(split.chunks[i]) <= split.limit

\* a text of letters only, longer than the chunk size, was cut into chunks
C20_Witness ==
    /\ split.pc = "returned"
    /\ split.op = "split_text_recursive"
    /\ split.text = <<"a", "a", "a", "a">>
    /\ split.chunk_size = <<3>>
    /\ split.chunk_overlap = <<1>>
    /\ Len(split.chunks) = 2

\* ---------------------------------------------------------------- claims: generation

\* what str(e) is when retrieve_parent_chunks raised
RetrievalErrors == {EmbeddingsNotInitialized, CapabilityError, StoreError}

\* retrieve_parent_chunks returned no rows to generate_stream
StreamRetrievedNothing ==
    /\ stream.pc \notin {"idle", "retrieve"}
    /\ stream.retrieved = <<>>
    /\ stream.raised \notin RetrievalErrors

\* retrieve_parent_chunks returned no rows to generate
ReplyRetrievedNothing ==
    /\ reply.pc \notin {"idle", "retrieve"}
    /\ reply.retrieved = <<>>
    /\ reply.raised \notin RetrievalErrors

\* C12: when retrieval returns no rows the generation capability is never
\* invoked: generate returns the fallback text with an empty citation list,
\* and the stream is exactly one delta carrying the fallback text, then the
\* done event, with no sources event and no error event.
C12_FallbackWithoutGeneration ==
    /\ StreamRetrievedNothing =>
          /\ stream.invoked = <<"retrieve_parent_chunks">>
          /\ stream.produced = 0
          /\ stream.pc \in {"fallback", "closed"}
          /\ events = IF stream.pc = "closed"
                      THEN <<ChunkEvent(Fallback, 1), DoneEvent>>
                      ELSE <<ChunkEvent(Fallback, 1)>>
    /\ ReplyRetrievedNothing =>
          /\ reply.invoked = <<"retrieve_parent_chunks">>
          /\ reply.pc = "returned"
          /\ reply.response = [response |-> Fallback, sources |-> <<>>]

\* both endpoints answered a query over an empty store
C12_Witness ==
    /\ StreamRetrievedNothing /\ stream.pc = "closed"
    /\ ReplyRetrievedNothing /\ reply.pc = "returned"
    /\ parent_chunks = <<>>

\* C13: within one generate or generate_stream call retrieval is called
\* exactly once and first; the generation capability is invoked at most once,
\* only in the step in which retrieval returned its rows (the context is
\* built from them), and never when retrieval raised.
C13_RetrievalBeforeGeneration ==
    /\ []( /\ stream.pc # "idle" =>
               /\ stream.invoked \in {<<"retrieve_parent_chunks">>,
                                      <<"retrieve_parent_chunks", "astream">>}
               /\ stream.raised \in RetrievalErrors =>
                     stream.invoked = <<"retrieve_parent_chunks">>
               /\ stream.pc = "retrieve" => Len(stream.invoked) = 1
           /\ reply.pc # "idle" =>
               /\ reply.invoked \in {<<"retrieve_parent_chunks">>,
                                     <<"retrieve_parent_chunks", "ainvoke">>}
               /\ reply.raised \in RetrievalErrors =>
                     reply.invoked = <<"retrieve_parent_chunks">>
               /\ reply.pc = "retrieve" => Len(reply.invoked) = 1)
    /\ [][ /\ Len(stream'.invoked) > Len(stream.invoked) /\ stream.pc # "idle" =>
               /\ stream.pc = "retrieve"
               /\ \E query_embedding \in Angles :
                     stream'.retrieved = FetchRows(parent_chunks, child_chunks,
                                                   query_embedding, top_k_retrieval)
               /\ stream'.context =
                     Join([i \in 1..Len(stream'.retrieved) |->
                              ContextText(stream'.retrieved[i])],
                          <<"\n", "\n", "-", "-", "-", "\n", "\n">>)
           /\ Len(reply'.invoked) > Len(reply.invoked) /\ reply.pc # "idle" =>
               /\ reply.pc = "retrieve"
               /\ \E query_embedding \in Angles :
                     reply'.retrieved = FetchRows(parent_chunks, child_chunks,
                                                  query_embedding, top_k_retrieval)
               /\ reply'.context =
                     Join([i \in 1..Len(reply'.retrieved) |->
                              ContextText(reply'.retrieved[i])],
                          <<"\n", "\n", "-", "-", "-", "\n", "\n">>)]_vars

\* both endpoints answered from retrieved rows, and a retrieval had raised
\* in neither
C13_Witness ==
    /\ stream.pc = "closed" /\ stream.invoked = <<"retrieve_parent_chunks", "astream">>
    /\ reply.pc = "returned" /\ reply.invoked = <<"retrieve_parent_chunks", "ainvoke">>

\* C19: whatever fragments the generation capability produces, every delta
\* generate_stream emits is non-empty, the deltas come in upstream order, and
\* their concatenation is the full answer: the concatenation of all the
\* fragments produced so far.
C19_DeltasConcatenateToAnswer ==
    stream.retrieved # <<>> =>
        LET deltas == SelectSeq(events, LAMBDA e : e.event = "message") IN
        /\ \A i \in 1..Len(deltas) : deltas[i].content # <<>>
        /\ Concat([i \in 1..Len(deltas) |-> deltas[i].content]) = stream.answer

\* the contents of the deltas sent so far
Deltas ==
    LET sent == SelectSeq(events, LAMBDA e : e.event = "message")
    IN  [i \in 1..Len(sent) |-> sent[i].content]

\* C24: generate_stream suppresses an incoming fragment (it is neither
\* emitted nor buffered) exactly when the fragment is empty or the buffer
\* ends with it; every other fragment is appended to the buffer and emitted
\* once; so the buffer always equals the concatenation of the deltas emitted
\* so far.
C24_SuppressedExactlyOnSuffixRepeat ==
    /\ [](stream.retrieved # <<>> => stream.buffer = Concat(Deltas))
    /\ [][ stream'.produced = stream.produced + 1 =>
             LET new_text == SubSeq(stream'.answer, Len(stream.answer) + 1,
                                    Len(stream'.answer))
                 n == Len(stream.buffer) - Len(new_text)
                 repeat == /\ n >= 0
                           /\ \A i \in 1..Len(new_text) :
                                 stream.buffer[n + i] = new_text[i]
             IN  IF new_text = <<>> \/ repeat
                 THEN /\ stream'.buffer = stream.buffer
                      /\ events' = events
                 ELSE /\ stream'.buffer = stream.buffer \o new_text
                      /\ Len(events') = Len(events) + 1
                      /\ events'[Len(events')].event = "message"
                      /\ events'[Len(events')].content = new_text ]_vars

\* after the fragments "a", "b", "a": all three were emitted, the last being
\* in the buffer but not at its end
C24_Witness ==
    /\ stream.answer = <<"a", "b", "a">>
    /\ stream.produced = 3
    /\ stream.buffer = <<"a", "b", "a">>
    /\ Deltas = << <<"a">>, <<"b">>, <<"a">> >>

\* ---------------------------------------------------------------- claims: the Streamlit UI

\* C27: every request the UI builds for the stream endpoint is a valid
\* ChatRequest (at least one message, a query of 1 to 1000 characters), the
\* first question of a session included, so the endpoint never answers it
\* with a validation error.
C27_UIRequestValid ==
    /\ session_state.pc = "post" =>
          /\ Len(session_state.chat_request.messages) >= 1
          /\ Len(session_state.chat_request.query) \in 1..1000
    /\ session_state.status_code # 422

\* C28: the chat_history handed to the generation capability holds every
\* prior turn of the session, in order (all the messages before the current
\* question), and the current question is the query only.
C28_HistoryHoldsPriorTurns ==
    (session_state.pc = "streaming" /\ stream.pc = "astream") =>
        /\ stream.query = session_state.prompt
        /\ stream.langchain_messages
              = SubSeq(session_state.messages, 1, Len(session_state.messages) - 1)

\* ---------------------------------------------------------------- claims: the store, called directly

\* caller w is inside the `async with self.pool.acquire()` block of its call
InBlock(w) == workers[w].pc \in {"execute", "insert"}

\* this step is the return of caller w from its call of op
Returns(w, op) ==
    /\ workers[w].op = op
    /\ InBlock(w)
    /\ workers'[w].pc = "returned"

\* C14: every store operation called before initialize has run fails with the
\* "not initialized" RuntimeError, never with the failure of dereferencing the
\* missing pool, and touches nothing in the store.
C14_NotInitializedError ==
    \A w \in Workers :
        (pool = None /\ workers[w].pc # "idle") =>
            /\ workers[w].pc = "raised"
            /\ workers[w].error = EmbeddingsNotInitialized
            /\ parent_chunks = <<>> /\ child_chunks = <<>> /\ held = {}

\* C15: delete_document(name) removes exactly the parents named name and their
\* children and leaves every other parent and child as it was; with no
\* matching parent (a second call in a row included) it returns without
\* error and leaves the store unchanged.
C15_DeleteDocument ==
    /\ [](\A w \in Workers :
            (workers[w].op = "delete_document" /\ workers[w].pc = "raised") =>
                workers[w].error \in {PoolIsNone, StoreError})
    /\ [][\A w \in Workers :
            Returns(w, "delete_document") =>
                LET name == workers[w].args.document_name
                    kept == {pid \in DOMAIN parent_chunks :
                                parent_chunks[pid].document_name # name}
                IN  /\ DOMAIN parent_chunks' = kept
                    /\ \A pid \in kept : parent_chunks'[pid] = parent_chunks[pid]
                    /\ child_chunks' =
                          SelectSeq(child_chunks, LAMBDA c : c.parent_id \in kept)
                    /\ kept = DOMAIN parent_chunks =>
                          UNCHANGED <<parent_chunks, child_chunks>>]_vars

\* two delete_document calls have returned, a.pdf is gone with its children
\* and b.pdf is still there with its own
C15_Witness ==
    /\ \A w \in {1, 2} :
          workers[w].op = "delete_document" /\ workers[w].pc = "returned"
    /\ DOMAIN parent_chunks = {1}
    /\ parent_chunks[1] = StoredParents[1]
    /\ child_chunks = SelectSeq(StoredChildren, LAMBDA c : c.parent_id = 1)
    /\ child_chunks # <<>>

\* C16: store_parent_chunk is an upsert by id: a call adds a row for a new id
\* and none for an id the store has; after it the row of that id carries the
\* call's content and metadata (as the metadata column encodes them); no
\* other row changes.
C16_UpsertById ==
    [][\A w \in Workers :
         Returns(w, "store_parent_chunk") =>
            LET args == workers[w].args
                fresh == args.parent_id \notin DOMAIN parent_chunks
            IN  /\ DOMAIN parent_chunks' = DOMAIN parent_chunks \cup {args.parent_id}
                /\ Cardinality(DOMAIN parent_chunks') =
                      Cardinality(DOMAIN parent_chunks) + (IF fresh THEN 1 ELSE 0)
                /\ parent_chunks'[args.parent_id].content = args.content
                /\ parent_chunks'[args.parent_id].metadata = JsonColumn(args.metadata)
                /\ \A pid \in DOMAIN parent_chunks \ {args.parent_id} :
                      parent_chunks'[pid] = parent_chunks[pid]
                /\ child_chunks' = child_chunks]_vars

\* two store_parent_chunk calls on the stored id 1 have returned, the later
\* one with content "a" and an empty metadata dict
C16_Witness ==
    /\ \A w \in {1, 2} :
          workers[w].op = "store_parent_chunk" /\ workers[w].pc = "returned"
    /\ DOMAIN parent_chunks = 1..3
    /\ parent_chunks[1].content = <<"a">>
    /\ parent_chunks[1].metadata = <<>>

\* C29: a store_parent_chunk call with an id the store already has changes
\* only the content and the metadata of that row: its document_name,
\* page_number and section_title stay those of the first insert even when
\* the call passes others, and every other parent row and every child row
\* is left as it was.
C29_UpsertKeepsOtherColumns ==
    [][\A w \in Workers :
         (/\ Returns(w, "store_parent_chunk")
          /\ workers[w].args.parent_id \in DOMAIN parent_chunks) =>
            LET args == workers[w].args
                old == parent_chunks[args.parent_id]
                new == parent_chunks'[args.parent_id]
            IN  /\ new.document_name = old.document_name
                /\ new.section_title = old.section_title
                /\ new.page_number = old.page_number
                /\ new.content = args.content
                /\ new.metadata = JsonColumn(args.metadata)
                /\ DOMAIN parent_chunks' = DOMAIN parent_chunks
                /\ \A pid \in DOMAIN parent_chunks \ {args.parent_id} :
                      parent_chunks'[pid] = parent_chunks[pid]
                /\ child_chunks' = child_chunks]_vars

\* a call for the stored id 1 that passed document c.pdf, page 7 and section
\* Intro has returned: the row has the call's content and is still the row
\* of b.pdf, with no page and no section
C29_Witness ==
    /\ \E w \in Workers :
          /\ workers[w].op = "store_parent_chunk"
          /\ workers[w].pc = "returned"
    /\ \A w \in Workers : workers[w].op \in {None, "store_parent_chunk"}
    /\ 1 \in DOMAIN parent_chunks
    /\ parent_chunks[1].content = <<"a">>
    /\ parent_chunks[1].document_name = "b.pdf"
    /\ parent_chunks[1].section_title = None
    /\ parent_chunks[1].page_number = None
    /\ child_chunks = StoredChildren

\* C17: under every interleaving the connections held never exceed the pool
\* size, the callers holding one are exactly those inside their `async with`
\* block, and a call that leaves the block, returning or raising (a failure
\* inside the child-batch transaction included), gives its connection back
\* in that step.
C17_PoolAccounting ==
    /\ [](/\ Cardinality(held) <= neon_db_pool_size
          /\ \A w \in Workers : w \in held <=> InBlock(w))
    /\ [][\A w \in Workers :
            (InBlock(w) /\ workers'[w].pc \in {"returned", "raised"}) =>
                w \in held /\ w \notin held']_vars

\* a child batch failed on its foreign key inside the transaction, and the
\* connection it gave back is now held by another caller
C17_Witness ==
    \E w, v \in Workers :
        /\ workers[w].pc = "raised"
        /\ workers[w].error = ForeignKeyViolation
        /\ w \notin held
        /\ v \in held
        /\ Cardinality(held) = neon_db_pool_size

====
